---- MODULE Spec2Model ----
(***************************************************************************)
(* Dynamic watch registration and event dispatch of the                    *)
(* controller-runtime-dynamic-cache operator:                              *)
(*   - inputResourceInitializer.Start / startAndWaitForInformersFor        *)
(*     (filter-map variant, src/input_resource_initializer.go:314-404),    *)
(*   - eventDispatcher.Handle and syncingChannelSource.WaitForSync         *)
(*     (src/unnamed/part_000),                                             *)
(*   - the request codec requestFor / parseRequest and the per-object      *)
(*     Reconcile (src/unnamed/part_002).                                   *)
(***************************************************************************)
EXTENDS Naturals, Sequences, FiniteSets, TLC

VARIABLES
    \* ---- inputResourceInitializer and its collaborators
    inputResources,   \* what discoverInputResources returns: operator -> list of ExactResourceID
    startPc,          \* position of the goroutine running Start
    startErr,         \* the error Start returned (NoErr while running or on success)
    pendingOwners,    \* operators the outer range loop has not visited yet
    operator,         \* the outer loop variable
    idx,              \* index of the inner loop in the operator's ExactResources
    registeredGVK,    \* the sets.String of the current outer iteration
    gvkForHandler,    \* the kind of the current inner iteration
    informers,        \* kinds the cache holds an informer for
    hydrated,         \* informers whose HasSynced is true
    cacheStarted,     \* whether the manager has started the cache
    handlers,         \* the event-handler registrations made, in order
    dispatcher,       \* r.dispatcher: Nil or [filters |-> kind -> list of filters]
    rInputResources,  \* r.inputResources: Nil or the stored selector set
    syncedCh,         \* "open" or "closed"
    cacheSyncReturned,\* what WaitForCacheSync returned: "none", "true" or "false"
    cancelled,        \* ctx.Done() is closed
    cancelledEarly,   \* history: the context was cancelled before the streams were hydrated
    wfsPc,            \* the caller of WaitForSync: "idle" or "waiting"
    wfsResult,        \* what the last WaitForSync call returned: "none", "nil", "ctxErr"
    wfsCalledSynced,  \* history: the synced channel was closed when WaitForSync was last called
    \* ---- eventDispatcher, the event channel and the handler goroutines
    events,           \* the buffer of the events channel, oldest first
    sendq,            \* the goroutines parked in a send on the full channel, oldest first
    prod,             \* per handler registration: its delivery goroutine [pc, ev]
    calls,            \* number of callback invocations made so far
    accepted,         \* number of Handle calls whose object passed a filter
    handledErrors,    \* number of utilruntime.HandleError reports
    lastCall,         \* the most recent callback invocation and what it decided
    delivered,        \* the events the consumer has received, in order
    \* ---- the request codec and the per-object Reconcile
    ref,              \* the (gvk, obj) pair a watch hands to requestFor, or Nil
    req,              \* the reconcile.Request on the work queue, or Nil
    parsed,           \* what parseRequest returned inside Reconcile, or Nil
    gets,             \* the r.Get calls Reconcile made: [gvk, key]
    result,           \* what Reconcile returned: Nil or [err]
    \* ---- the caller of newEventDispatcher
    callerFilters,    \* the map the caller passed to newEventDispatcher and still holds
    \* ---- the coarse routing: one request per operator
    requests,         \* history: what the map function of the channel source returned, per received event
    env               \* what the mapper, the scheme and the cache answer to a coarse Reconcile

startVars == <<inputResources, startPc, startErr, pendingOwners, operator, idx,
               registeredGVK, gvkForHandler, informers, hydrated, cacheStarted,
               handlers, dispatcher, rInputResources, syncedCh, cacheSyncReturned,
               cancelled, cancelledEarly, wfsPc, wfsResult, wfsCalledSynced>>

\* groups used in the UNCHANGED clauses
loopVars == <<pendingOwners, operator, idx, registeredGVK, gvkForHandler>>
cacheVars == <<informers, hydrated, cacheStarted>>
ctxVars == <<cancelled, cancelledEarly>>
wfsVars == <<wfsPc, wfsResult, wfsCalledSynced>>
initializerVars == <<dispatcher, rInputResources, syncedCh, cacheSyncReturned>>

dispatchVars == <<events, sendq, prod, calls, accepted, handledErrors, lastCall, delivered>>

codecVars == <<ref, req, parsed, gets, result>>

coarseVars == <<requests, env>>

vars == <<startVars, dispatchVars, codecVars, callerFilters, coarseVars>>

----------------------------------------------------------------------------
\* Bounds of the model
MaxSel == 2     \* longest ExactResources list of operator opA

----------------------------------------------------------------------------
\* Data

Nil == [nil |-> TRUE]
NoKind == "<no kind>"
NoOperator == "<none>"

Owners == {"opA", "opB"}
Kinds == {"ConfigMap", "Secret", "Node"}

\* meta.RESTMapper.KindFor: the kind of a resource, or an error (NoKind)
KindFor(res) ==
    CASE res = "configmaps" -> "ConfigMap"
      [] res = "secrets"    -> "Secret"
      [] res = "nodes"      -> "Node"
      [] OTHER              -> NoKind

ExactResourceID(res, ns, name) == [res |-> res, ns |-> ns, name |-> name]
NoSelector == ExactResourceID("", "", "")

\* errors Start can return
NoErr == [type |-> "nil", selector |-> NoSelector, operator |-> NoOperator]
CtxErr == [type |-> "context canceled", selector |-> NoSelector, operator |-> NoOperator]
NotSyncedErr == [type |-> "caches did not sync", selector |-> NoSelector, operator |-> NoOperator]
InformerErr == [type |-> "GetInformerForKind", selector |-> NoSelector, operator |-> NoOperator]
HandlerErr == [type |-> "AddEventHandler", selector |-> NoSelector, operator |-> NoOperator]
KindErr(def, op) == [type |-> "unable to find Kind", selector |-> def, operator |-> op]

SeqsUpTo(S, n) == UNION {[1..k -> S] : k \in 0..n}

\* selectors the registration model draws from
StartPool == {ExactResourceID("configmaps", "kube-system", "kube-root-ca.crt"),
              ExactResourceID("secrets", "", "bar"),
              ExactResourceID("widgets", "foo", "bar")}

StartInputs == {[o \in Owners |-> IF o = "opA" THEN a ELSE b] :
                   a \in SeqsUpTo(StartPool, MaxSel),
                   b \in {<<>>} \cup {<<s>> : s \in StartPool}}

\* no operator has any selector
NoInputResources == [o \in Owners |-> <<>>]

\* the orders in which Go may range over the map of operators
OwnerOrders == {<<"opA", "opB">>, <<"opB", "opA">>}

----------------------------------------------------------------------------
\* buildInputResourceFilters, exactResourceFilter, newEventDispatcher

\* the (operator, selector) pairs in the order the nested range loops visit them
RECURSIVE Flatten(_, _, _)
Flatten(input, order, i) ==
    IF i > Len(order) THEN <<>>
    ELSE [j \in 1..Len(input[order[i]]) |->
             [operator |-> order[i], def |-> input[order[i]][j]]]
         \o Flatten(input, order, i + 1)

EmptyFilters == [k \in Kinds |-> <<>>]

\* a loop that replaces the filter list of a kind instead of appending to it
RECURSIVE buildLoopOverwrite(_, _, _)
buildLoopOverwrite(flat, i, filters) ==
    IF i > Len(flat) THEN [err |-> NoErr, filters |-> filters]
    ELSE LET gvk == KindFor(flat[i].def.res) IN
         IF gvk = NoKind
         THEN [err |-> KindErr(flat[i].def, flat[i].operator), filters |-> EmptyFilters]
         ELSE buildLoopOverwrite(flat, i + 1, [filters EXCEPT ![gvk] = <<flat[i].def>>])

\* a loop that skips the selectors whose kind cannot be resolved
RECURSIVE buildLoopSkipUnresolved(_, _, _)
buildLoopSkipUnresolved(flat, i, filters) ==
    IF i > Len(flat) THEN [err |-> NoErr, filters |-> filters]
    ELSE LET gvk == KindFor(flat[i].def.res) IN
         IF gvk = NoKind
         THEN buildLoopSkipUnresolved(flat, i + 1, filters)
         ELSE buildLoopSkipUnresolved(flat, i + 1,
                                      [filters EXCEPT ![gvk] = Append(@, flat[i].def)])

RECURSIVE buildLoop(_, _, _)
buildLoop(flat, i, filters) ==
    IF i > Len(flat) THEN [err |-> NoErr, filters |-> filters]
    ELSE LET gvk == KindFor(flat[i].def.res) IN
         IF gvk = NoKind
         THEN [err |-> KindErr(flat[i].def, flat[i].operator), filters |-> EmptyFilters]
         ELSE buildLoop(flat, i + 1, [filters EXCEPT ![gvk] = Append(@, flat[i].def)])

\* a build that stops after the first operator of the range
buildInputResourceFiltersFirstOperator(input, order) ==
    buildLoop(Flatten(input, <<order[1]>>, 1), 1, EmptyFilters)

\* a filter is the closure over def; it is kept as def and evaluated by exactResourceFilter
buildInputResourceFilters(input, order) ==
    buildLoop(Flatten(input, order, 1), 1, EmptyFilters)

\* a filter that forgets to compare the name
exactResourceFilterNamespaceOnly(def, obj) ==
    IF def.ns # "" /\ obj.ns # def.ns THEN FALSE
    ELSE TRUE

\* a filter for which an empty field matches only an empty value
exactResourceFilterNoWildcard(def, obj) ==
    IF obj.ns # def.ns THEN FALSE
    ELSE IF obj.name # def.name THEN FALSE
    ELSE TRUE

exactResourceFilter(def, obj) ==
    IF def.ns # "" /\ obj.ns # def.ns THEN FALSE
    ELSE IF def.name # "" /\ obj.name # def.name THEN FALSE
    ELSE TRUE

copyFilters(filters) ==
    [k \in DOMAIN filters |-> [i \in 1..Len(filters[k]) |-> filters[k][i]]]

\* a dispatcher that keeps the map it was given
newEventDispatcherKeepsArgument(filters) == [filters |-> filters, aliased |-> TRUE]

\* filters: copyFilters(filters); aliased says whether d.filters is the storage of
\* the argument (copyFilters makes a new map and a new slice per kind, so it is not)
newEventDispatcher(filters) == [filters |-> copyFilters(filters), aliased |-> FALSE]

----------------------------------------------------------------------------
\* inputResourceInitializer.Start

\* Start returns err; its locals go out of scope
Return(err) ==
    /\ startPc' = "done"
    /\ startErr' = err
    /\ pendingOwners' = {}
    /\ operator' = NoOperator
    /\ idx' = 1
    /\ registeredGVK' = {}
    /\ gvkForHandler' = NoKind

\* a Start that goes on to the registration without installing the dispatcher and
\* without storing the selectors
StartCallInstallsNothing ==
    /\ startPc = "idle"
    /\ \E order \in OwnerOrders :
         LET built == buildInputResourceFilters(inputResources, order) IN
         IF built.err # NoErr
         THEN Return(built.err)
         ELSE /\ pendingOwners' = DOMAIN inputResources
              /\ startPc' = "rangeOperators"
              /\ UNCHANGED <<startErr, operator, idx, registeredGVK, gvkForHandler>>
    /\ UNCHANGED <<inputResources, cacheVars, handlers, initializerVars,
                   ctxVars, wfsVars, dispatchVars, codecVars, callerFilters, coarseVars>>

\* lines 315-328: discover, check, build the filters, install the dispatcher
StartCall ==
    /\ startPc = "idle"
    /\ \E order \in OwnerOrders :
         LET built == buildInputResourceFilters(inputResources, order) IN
         IF built.err # NoErr
         THEN /\ Return(built.err)
              /\ UNCHANGED <<dispatcher, rInputResources>>
         ELSE /\ dispatcher' = newEventDispatcher(built.filters)
              /\ rInputResources' = inputResources
              /\ pendingOwners' = DOMAIN inputResources
              /\ startPc' = "rangeOperators"
              /\ UNCHANGED <<startErr, operator, idx, registeredGVK, gvkForHandler>>
    /\ UNCHANGED <<inputResources, cacheVars, handlers, syncedCh, cacheSyncReturned,
                   ctxVars, wfsVars, dispatchVars, codecVars, callerFilters, coarseVars>>

\* lines 334-335: the outer range loop, in the map's arbitrary order
RangeOperators ==
    /\ startPc = "rangeOperators"
    /\ IF pendingOwners = {}
       THEN /\ startPc' = "waitForCacheSync"
            /\ operator' = NoOperator
            /\ idx' = 1
            /\ registeredGVK' = {}
            /\ gvkForHandler' = NoKind
            /\ UNCHANGED pendingOwners
       ELSE \E o \in pendingOwners :
              /\ operator' = o
              /\ pendingOwners' = pendingOwners \ {o}
              /\ registeredGVK' = {}
              /\ idx' = 1
              /\ startPc' = "rangeResources"
              /\ UNCHANGED gvkForHandler
    /\ UNCHANGED <<inputResources, startErr, cacheVars, handlers, initializerVars,
                   ctxVars, wfsVars, dispatchVars, codecVars, callerFilters, coarseVars>>

\* lines 336-353: one inner iteration up to the call of GetInformerForKind
RangeResources ==
    /\ startPc = "rangeResources"
    /\ IF idx > Len(inputResources[operator])
       THEN /\ startPc' = "rangeOperators"
            /\ UNCHANGED <<startErr, loopVars, informers>>
       ELSE LET exactResource == inputResources[operator][idx]
                gvk == KindFor(exactResource.res) IN
            IF gvk = NoKind
            THEN /\ Return(KindErr(exactResource, operator))
                 /\ UNCHANGED informers
            ELSE IF gvk \in registeredGVK
            THEN /\ idx' = idx + 1
                 /\ UNCHANGED <<startPc, startErr, pendingOwners, operator,
                                registeredGVK, gvkForHandler, informers>>
            ELSE /\ gvkForHandler' = gvk
                 /\ informers' = informers \cup {gvk}
                 /\ startPc' = "getInformerForKind"
                 /\ UNCHANGED <<startErr, pendingOwners, operator, idx, registeredGVK>>
    /\ UNCHANGED <<inputResources, hydrated, cacheStarted, handlers, initializerVars,
                   ctxVars, wfsVars, dispatchVars, codecVars, callerFilters, coarseVars>>

\* line 353: GetInformerForKind(ctx, gvk, BlockUntilSynced(true)) returns the informer:
\* at once while the cache is not started, otherwise once the informer is hydrated
GetInformerOk ==
    /\ startPc = "getInformerForKind"
    /\ ~cacheStarted \/ gvkForHandler \in hydrated
    /\ startPc' = "addEventHandler"
    /\ UNCHANGED <<inputResources, startErr, loopVars, cacheVars, handlers,
                   initializerVars, ctxVars, wfsVars, dispatchVars, codecVars, callerFilters, coarseVars>>

\* lines 354-356: GetInformerForKind fails (the informer cannot be built, or the
\* context ends while it waits)
GetInformerErr ==
    /\ startPc = "getInformerForKind"
    /\ Return(InformerErr)
    /\ UNCHANGED <<inputResources, cacheVars, handlers, initializerVars, ctxVars,
                   wfsVars, dispatchVars, codecVars, callerFilters, coarseVars>>

\* the goroutine that delivers the notifications of one handler registration
IdleProducer == [pc |-> "idle", ev |-> Nil]

\* lines 357-393: AddEventHandler succeeds and the kind is recorded
AddEventHandlerOk ==
    /\ startPc = "addEventHandler"
    /\ handlers' = Append(handlers, [operator |-> operator, gvk |-> gvkForHandler])
    /\ prod' = Append(prod, IdleProducer)
    /\ registeredGVK' = registeredGVK \cup {gvkForHandler}
    /\ idx' = idx + 1
    /\ startPc' = "rangeResources"
    /\ UNCHANGED <<inputResources, startErr, pendingOwners, operator, gvkForHandler,
                   cacheVars, initializerVars, ctxVars, wfsVars, events, sendq, calls,
                   accepted, handledErrors, lastCall, delivered, codecVars, callerFilters, coarseVars>>

\* lines 390-392
AddEventHandlerErr ==
    /\ startPc = "addEventHandler"
    /\ Return(HandlerErr)
    /\ UNCHANGED <<inputResources, cacheVars, handlers, initializerVars, ctxVars,
                   wfsVars, dispatchVars, codecVars, callerFilters, coarseVars>>

\* a Start that closes the synced channel whatever WaitForCacheSync returned
AfterCacheSyncAlwaysClose(ok) ==
    IF ~ok
    THEN IF cancelled THEN [err |-> CtxErr, close |-> TRUE]
         ELSE [err |-> NotSyncedErr, close |-> TRUE]
    ELSE [err |-> NoErr, close |-> TRUE]

\* a Start that reports success when the caches did not sync
AfterCacheSyncSwallowsError(ok) ==
    IF ~ok THEN [err |-> NoErr, close |-> FALSE]
    ELSE [err |-> NoErr, close |-> TRUE]

\* lines 396-403: what Start does with the result of WaitForCacheSync
\* [err: the error returned, close: whether close(r.syncedCh) runs]
AfterCacheSync(ok) ==
    IF ~ok
    THEN IF cancelled THEN [err |-> CtxErr, close |-> FALSE]
         ELSE [err |-> NotSyncedErr, close |-> FALSE]
    ELSE [err |-> NoErr, close |-> TRUE]

\* a WaitForCacheSync that reports success only while the event channel is empty
CacheSyncCanReturnWhenDrained(ok) ==
    IF ok THEN cacheStarted /\ informers \subseteq hydrated /\ events = <<>>
    ELSE TRUE

\* cache.WaitForCacheSync(ctx): true once the cache is started and every informer
\* is hydrated; false when the context ends first or a cache could not be synced
CacheSyncCanReturn(ok) ==
    IF ok THEN cacheStarted /\ informers \subseteq hydrated
    ELSE TRUE

\* close of a closed channel panics: the process dies inside Start
ClosedTwice == "panic: close of closed channel"

WaitForCacheSync ==
    /\ startPc = "waitForCacheSync"
    /\ \E ok \in BOOLEAN :
         /\ CacheSyncCanReturn(ok)
         /\ cacheSyncReturned' = IF ok THEN "true" ELSE "false"
         /\ IF AfterCacheSync(ok).close /\ syncedCh # "open"
            THEN /\ syncedCh' = ClosedTwice
                 /\ startPc' = "panic"
                 /\ UNCHANGED <<startErr, loopVars>>
            ELSE /\ Return(AfterCacheSync(ok).err)
                 /\ syncedCh' = IF AfterCacheSync(ok).close THEN "closed" ELSE syncedCh
    /\ UNCHANGED <<inputResources, cacheVars, handlers, dispatcher, rInputResources,
                   ctxVars, wfsVars, dispatchVars, codecVars, callerFilters, coarseVars>>

\* Start is invoked once more on the instance whose Start has returned nil;
\* nothing in Start (lines 314-329) or in the struct (296-303) refuses the call
StartAgain ==
    /\ startPc = "done"
    /\ startErr = NoErr
    /\ Len(handlers) <= Cardinality(Owners) * Cardinality(Kinds)
    /\ startPc' = "idle"
    /\ UNCHANGED <<inputResources, startErr, loopVars, cacheVars, handlers,
                   initializerVars, ctxVars, wfsVars, dispatchVars, codecVars, callerFilters, coarseVars>>

----------------------------------------------------------------------------
\* The environment of Start: the cache, its informers and the context

CacheStart ==
    /\ ~cacheStarted
    /\ ~cancelled
    /\ cacheStarted' = TRUE
    /\ UNCHANGED <<inputResources, startPc, startErr, loopVars, informers, hydrated,
                   handlers, initializerVars, ctxVars, wfsVars, dispatchVars, codecVars, callerFilters, coarseVars>>

Hydrate ==
    /\ cacheStarted
    /\ ~cancelled
    /\ \E k \in informers \ hydrated : hydrated' = hydrated \cup {k}
    /\ UNCHANGED <<inputResources, startPc, startErr, loopVars, informers, cacheStarted,
                   handlers, initializerVars, ctxVars, wfsVars, dispatchVars, codecVars, callerFilters, coarseVars>>

\* the kinds the selectors of the input resolve to
RequiredKinds(input) ==
    UNION {{KindFor(input[o][i].res) : i \in 1..Len(input[o])} : o \in DOMAIN input}
        \ {NoKind}

Resolvable(input) ==
    \A o \in DOMAIN input : \A i \in 1..Len(input[o]) : KindFor(input[o][i].res) # NoKind

\* the context is cancelled; the history variable records whether that happened
\* while Start was still running and some watch stream of the input was not hydrated
Cancel ==
    /\ ~cancelled
    /\ cancelled' = TRUE
    /\ cancelledEarly' = (/\ startPc # "done"
                          /\ ~(cacheStarted /\ RequiredKinds(inputResources) \subseteq hydrated))
    /\ UNCHANGED <<inputResources, startPc, startErr, loopVars, cacheVars, handlers,
                   initializerVars, wfsVars, dispatchVars, codecVars, callerFilters, coarseVars>>

----------------------------------------------------------------------------
\* syncingChannelSource.WaitForSync

WaitForSyncCall ==
    /\ wfsPc = "idle"
    /\ wfsPc' = "waiting"
    /\ wfsCalledSynced' = (syncedCh = "closed")
    /\ UNCHANGED <<inputResources, startPc, startErr, loopVars, cacheVars, handlers,
                   initializerVars, ctxVars, wfsResult, dispatchVars, codecVars, callerFilters, coarseVars>>

\* a WaitForSync that reports success when the context ends
WaitForSyncSelectNilOnDone ==
    (IF syncedCh = "closed" THEN {"nil"} ELSE {})
    \cup (IF cancelled THEN {"nil"} ELSE {})

\* the select statement: the results of the cases that are ready
WaitForSyncSelect ==
    (IF syncedCh = "closed" THEN {"nil"} ELSE {})
    \cup (IF cancelled THEN {"ctxErr"} ELSE {})

WaitForSyncReturn ==
    /\ wfsPc = "waiting"
    /\ \E res \in WaitForSyncSelect : wfsResult' = res
    /\ wfsPc' = "idle"
    /\ UNCHANGED <<wfsCalledSynced, inputResources, startPc, startErr, loopVars, cacheVars, handlers,
                   initializerVars, ctxVars, dispatchVars, codecVars, callerFilters, coarseVars>>

----------------------------------------------------------------------------
\* Specification of the registration and the sync handshake

NoCall == [p |-> 0, cb |-> "none", payload |-> Nil, gvk |-> NoKind, sends |-> <<>>,
           evaluated |-> 0]

\* no notification has been delivered yet
DispatchIdle ==
    /\ events = <<>>
    /\ sendq = <<>>
    /\ calls = 0
    /\ accepted = 0
    /\ handledErrors = 0
    /\ lastCall = NoCall
    /\ delivered = <<>>

\* no request has been encoded or reconciled yet
CodecIdle ==
    /\ callerFilters = Nil
    /\ requests = <<>>
    /\ env = Nil
    /\ ref = Nil
    /\ req = Nil
    /\ parsed = Nil
    /\ gets = <<>>
    /\ result = Nil

\* the state newInputResourceInitializer leaves
Created(inputs) ==
    /\ inputResources \in inputs
    /\ startPc = "idle"
    /\ startErr = NoErr
    /\ pendingOwners = {}
    /\ operator = NoOperator
    /\ idx = 1
    /\ registeredGVK = {}
    /\ gvkForHandler = NoKind
    /\ informers = {}
    /\ hydrated = {}
    /\ cacheStarted \in BOOLEAN
    /\ handlers = <<>>
    /\ prod = <<>>
    /\ dispatcher = Nil
    /\ rInputResources = Nil
    /\ syncedCh = "open"
    /\ cacheSyncReturned = "none"
    /\ cancelled = FALSE
    /\ cancelledEarly = FALSE
    /\ wfsPc = "idle"
    /\ wfsResult = "none"
    /\ wfsCalledSynced = FALSE
    /\ DispatchIdle

Init == Created(StartInputs) /\ CodecIdle

Next ==
    \/ StartCall
    \/ RangeOperators
    \/ RangeResources
    \/ GetInformerOk
    \/ GetInformerErr
    \/ AddEventHandlerOk
    \/ AddEventHandlerErr
    \/ WaitForCacheSync
    \/ CacheStart
    \/ Hydrate
    \/ Cancel
    \/ WaitForSyncCall
    \/ WaitForSyncReturn

Spec == Init /\ [][Next]_vars

\* the same with Start invoked again after it has succeeded
NextRestart ==
    \/ Next
    \/ StartAgain

SpecRestart == Init /\ [][NextRestart]_vars

----------------------------------------------------------------------------
\* Objects and callback payloads

Obj(kind, ns, name) == [kind |-> kind, ns |-> ns, name |-> name]
NotAnObject == Obj("<not a client.Object>", "", "")

ObjNamespaces == {"kube-system", "foo"}
ObjNames == {"kube-root-ca.crt", "bar"}
ObjectsOf(kind) == {Obj(kind, ns, n) : ns \in ObjNamespaces, n \in ObjNames}

\* what an informer may hand to a callback: a live object, a
\* DeletedFinalStateUnknown tombstone around the last known object (or around
\* something that is no client.Object), or any other value
Live(o) == [shape |-> "object", obj |-> o]
Tombstone(o) == [shape |-> "tombstone", obj |-> o]
Other == [shape |-> "other", obj |-> NotAnObject]

LivePayloads(kind) == {Live(o) : o \in ObjectsOf(kind)}
DeletePayloads(kind) ==
    LivePayloads(kind) \cup {Tombstone(o) : o \in ObjectsOf(kind) \cup {NotAnObject}}

----------------------------------------------------------------------------
\* eventDispatcher.Handle and the callbacks registered by startAndWaitForInformersFor

\* lines 359-363 and 367-371: obj.(client.Object)
addFuncObject(payload) ==
    IF payload.shape = "object" THEN [ok |-> TRUE, obj |-> payload.obj]
    ELSE [ok |-> FALSE, obj |-> NotAnObject]

\* a DeleteFunc that does not unwrap tombstones
deleteFuncObjectNoTombstone(payload) ==
    IF payload.shape = "object" THEN [ok |-> TRUE, obj |-> payload.obj]
    ELSE [ok |-> FALSE, obj |-> NotAnObject]

\* lines 375-387: the live object, or the object inside the tombstone
deleteFuncObject(payload) ==
    IF payload.shape = "object" THEN [ok |-> TRUE, obj |-> payload.obj]
    ELSE IF payload.shape = "tombstone" /\ payload.obj # NotAnObject
    THEN [ok |-> TRUE, obj |-> payload.obj]
    ELSE [ok |-> FALSE, obj |-> NotAnObject]

callbackObject(cb, payload) ==
    IF cb = "delete" THEN deleteFuncObject(payload) ELSE addFuncObject(payload)

\* Handle, lines 54-60 of part_000: the events the loop over d.filters[gvk] sends
\* a loop without the return: every accepting filter sends
RECURSIVE handleLoopNoReturn(_, _, _)
handleLoopNoReturn(filters, i, cObj) ==
    IF i > Len(filters) THEN <<>>
    ELSE IF exactResourceFilter(filters[i], cObj)
    THEN <<[obj |-> cObj]>> \o handleLoopNoReturn(filters, i + 1, cObj)
    ELSE handleLoopNoReturn(filters, i + 1, cObj)

\* a loop that forwards when no filter is registered for the kind
handleLoopForwardUnfiltered(filters, i, cObj) ==
    IF Len(filters) = 0 THEN <<[obj |-> cObj]>>
    ELSE IF \E j \in i..Len(filters) : exactResourceFilter(filters[j], cObj)
    THEN <<[obj |-> cObj]>>
    ELSE <<>>

RECURSIVE handleLoop(_, _, _)
handleLoop(filters, i, cObj) ==
    IF i > Len(filters) THEN <<>>
    ELSE IF exactResourceFilter(filters[i], cObj) THEN <<[obj |-> cObj]>>
    ELSE handleLoop(filters, i + 1, cObj)

Handle(d, gvk, cObj) == handleLoop(d.filters[gvk], 1, cObj)

\* the number of filters that loop calls before it returns
RECURSIVE handleEvaluated(_, _, _)
handleEvaluated(filters, i, cObj) ==
    IF i > Len(filters) THEN 0
    ELSE IF exactResourceFilter(filters[i], cObj) THEN 1
    ELSE 1 + handleEvaluated(filters, i + 1, cObj)

\* the events one callback invocation sends
callbackSends(d, cb, gvk, payload) ==
    IF callbackObject(cb, payload).ok
    THEN Handle(d, gvk, callbackObject(cb, payload).obj)
    ELSE <<>>

\* a callback whose Handle call empties the filter list it has evaluated
CallbackForgetsFilters(p, cb, payload) ==
    /\ p \in 1..Len(handlers)
    /\ prod[p].pc = "idle"
    /\ dispatcher # Nil
    /\ LET gvk == handlers[p].gvk
           sends == callbackSends(dispatcher, cb, gvk, payload) IN
       /\ calls' = calls + 1
       /\ lastCall' = [p |-> p, cb |-> cb, payload |-> payload, gvk |-> gvk,
                        sends |-> sends,
                        evaluated |-> IF callbackObject(cb, payload).ok
                                      THEN handleEvaluated(dispatcher.filters[gvk], 1,
                                                           callbackObject(cb, payload).obj)
                                      ELSE 0]
       /\ handledErrors' = IF callbackObject(cb, payload).ok THEN handledErrors
                           ELSE handledErrors + 1
       /\ dispatcher' = [dispatcher EXCEPT !.filters[gvk] = <<>>]
       /\ IF sends = <<>>
          THEN UNCHANGED <<prod, accepted>>
          ELSE /\ accepted' = accepted + 1
               /\ prod' = [prod EXCEPT ![p] =
                             [pc |-> "send",
                              ev |-> [obj |-> sends[1].obj, seq |-> calls + 1,
                                      blockedAt |-> 0]]]
    /\ UNCHANGED <<coarseVars, callerFilters, codecVars, inputResources, startPc, startErr,
                   loopVars, cacheVars, handlers, rInputResources, syncedCh,
                   cacheSyncReturned, ctxVars, wfsVars, events, sendq, delivered>>

\* One callback of handler registration p runs up to the channel send of Handle.
\* seq and blockedAt are history tags of the event: the number of the call that
\* produced it and the number of calls made when its send parked (0: never parked).
Callback(p, cb, payload) ==
    /\ p \in 1..Len(handlers)
    /\ prod[p].pc = "idle"
    /\ dispatcher # Nil
    /\ LET gvk == handlers[p].gvk
           sends == callbackSends(dispatcher, cb, gvk, payload) IN
       /\ calls' = calls + 1
       /\ lastCall' = [p |-> p, cb |-> cb, payload |-> payload, gvk |-> gvk,
                        sends |-> sends,
                        evaluated |-> IF callbackObject(cb, payload).ok
                                      THEN handleEvaluated(dispatcher.filters[gvk], 1,
                                                           callbackObject(cb, payload).obj)
                                      ELSE 0]
       /\ handledErrors' = IF callbackObject(cb, payload).ok THEN handledErrors
                           ELSE handledErrors + 1
       /\ IF sends = <<>>
          THEN UNCHANGED <<prod, accepted>>
          ELSE /\ accepted' = accepted + 1
               /\ prod' = [prod EXCEPT ![p] =
                             [pc |-> "send",
                              ev |-> [obj |-> sends[1].obj, seq |-> calls + 1,
                                      blockedAt |-> 0]]]
    /\ UNCHANGED <<coarseVars, callerFilters, codecVars, startVars, events, sendq, delivered>>

AddFunc(p, payload) == Callback(p, "add", payload)
UpdateFunc(p, payload) == Callback(p, "update", payload)
DeleteFunc(p, payload) == Callback(p, "delete", payload)

\* capacity of the events channel (bufferSize of newInputResourceInitializer)
ChanCap == 1

\* d.events <- event.GenericEvent{Object: cObj} with room in the buffer
SendEnqueue(p) ==
    /\ prod[p].pc = "send"
    /\ Len(events) < ChanCap
    /\ events' = Append(events, prod[p].ev)
    /\ prod' = [prod EXCEPT ![p] = IdleProducer]
    /\ UNCHANGED <<coarseVars, callerFilters, codecVars, startVars, sendq, calls, accepted, handledErrors, lastCall, delivered>>

\* a send that gives up when the buffer is full
SendDrop(p) ==
    /\ prod[p].pc = "send"
    /\ Len(events) >= ChanCap
    /\ prod' = [prod EXCEPT ![p] = IdleProducer]
    /\ UNCHANGED <<coarseVars, callerFilters, codecVars, startVars, events, sendq, calls, accepted, handledErrors, lastCall,
                   delivered>>

\* the same send on a full buffer: the goroutine parks at the end of the send queue
SendBlock(p) ==
    /\ prod[p].pc = "send"
    /\ Len(events) >= ChanCap
    /\ sendq' = Append(sendq, p)
    /\ prod' = [prod EXCEPT ![p] = [pc |-> "blocked",
                                    ev |-> [prod[p].ev EXCEPT !.blockedAt = calls]]]
    /\ UNCHANGED <<coarseVars, callerFilters, codecVars, startVars, events, calls, accepted, handledErrors, lastCall, delivered>>

\* a channel that hands the event of the oldest parked sender to the consumer
\* ahead of the events in its buffer
ReceiveParkedFirst ==
    /\ events # <<>>
    /\ IF sendq = <<>>
       THEN /\ delivered' = Append(delivered, Head(events))
            /\ events' = Tail(events)
            /\ UNCHANGED <<sendq, prod>>
       ELSE /\ delivered' = Append(delivered, prod[Head(sendq)].ev)
            /\ prod' = [prod EXCEPT ![Head(sendq)] = IdleProducer]
            /\ sendq' = Tail(sendq)
            /\ UNCHANGED events
    /\ UNCHANGED <<coarseVars, callerFilters, codecVars, startVars, calls, accepted, handledErrors, lastCall>>

\* the channel source receives the oldest event; the oldest parked sender, if any,
\* moves its event into the freed slot and resumes
Receive ==
    /\ events # <<>>
    /\ delivered' = Append(delivered, Head(events))
    /\ IF sendq = <<>>
       THEN /\ events' = Tail(events)
            /\ UNCHANGED <<sendq, prod>>
       ELSE /\ events' = Append(Tail(events), prod[Head(sendq)].ev)
            /\ prod' = [prod EXCEPT ![Head(sendq)] = IdleProducer]
            /\ sendq' = Tail(sendq)
    /\ UNCHANGED <<coarseVars, callerFilters, codecVars, startVars, calls, accepted, handledErrors, lastCall>>

----------------------------------------------------------------------------
\* The state a successful Start leaves, as a function of the input

\* the registrations the inner loop makes for one operator (lines 336-394)
RECURSIVE registerLoop(_, _, _, _)
registerLoop(op, list, i, registered) ==
    IF i > Len(list) THEN <<>>
    ELSE LET gvk == KindFor(list[i].res) IN
         IF gvk \in registered THEN registerLoop(op, list, i + 1, registered)
         ELSE <<[operator |-> op, gvk |-> gvk]>>
              \o registerLoop(op, list, i + 1, registered \cup {gvk})

RECURSIVE handlersOf(_, _, _)
handlersOf(input, order, i) ==
    IF i > Len(order) THEN <<>>
    ELSE registerLoop(order[i], input[order[i]], 1, {}) \o handlersOf(input, order, i + 1)

\* Start has returned nil for this input: the dispatcher is installed, the handlers
\* are registered, the streams are hydrated and the synced channel is closed
Started(input) ==
    /\ inputResources = input
    /\ startPc = "done"
    /\ startErr = NoErr
    /\ pendingOwners = {}
    /\ operator = NoOperator
    /\ idx = 1
    /\ registeredGVK = {}
    /\ gvkForHandler = NoKind
    /\ informers = RequiredKinds(input)
    /\ hydrated = RequiredKinds(input)
    /\ cacheStarted = TRUE
    /\ \E order \in OwnerOrders : handlers = handlersOf(input, order, 1)
    /\ prod = [i \in 1..Len(handlers) |-> IdleProducer]
    /\ \E order \in OwnerOrders :
          dispatcher = newEventDispatcher(buildInputResourceFilters(input, order).filters)
    /\ rInputResources = input
    /\ syncedCh = "closed"
    /\ cacheSyncReturned = "true"
    /\ cancelled = FALSE
    /\ cancelledEarly = FALSE
    /\ wfsPc = "idle"
    /\ wfsResult = "none"
    /\ wfsCalledSynced = FALSE
    /\ DispatchIdle
    /\ CodecIdle

----------------------------------------------------------------------------
\* Specification of the filtering: one callback invocation on the state a
\* successful Start leaves, for every input, stream and payload

DispatchPool == {ExactResourceID("configmaps", "kube-system", "kube-root-ca.crt"),
                 ExactResourceID("configmaps", "kube-system", "bar"),
                 ExactResourceID("configmaps", "foo", ""),
                 ExactResourceID("secrets", "", "bar"),
                 ExactResourceID("secrets", "", "")}

DispatchInputs == {[o \in Owners |-> IF o = "opA" THEN a ELSE b] :
                      a \in SeqsUpTo(DispatchPool, MaxSel),
                      b \in {<<>>} \cup {<<s>> : s \in DispatchPool}}

InitDispatch == \E input \in DispatchInputs : Started(input)

NextDispatch ==
    \/ \E p \in 1..Len(handlers) : \E payload \in LivePayloads(handlers[p].gvk) \cup {Other} :
          calls = 0 /\ AddFunc(p, payload)
    \/ \E p \in 1..Len(handlers) : \E payload \in LivePayloads(handlers[p].gvk) \cup {Other} :
          calls = 0 /\ UpdateFunc(p, payload)
    \/ \E p \in 1..Len(handlers) : \E payload \in DeletePayloads(handlers[p].gvk) \cup {Other} :
          calls = 0 /\ DeleteFunc(p, payload)
    \/ \E p \in 1..Len(handlers) : SendEnqueue(p)
    \/ Receive

SpecDispatch == InitDispatch /\ [][NextDispatch]_vars

----------------------------------------------------------------------------
\* Specification of the event channel: several streams deliver matching and
\* non-matching objects to a slow consumer

MaxCalls == 3   \* callback invocations per behaviour

ChanInput == [o \in Owners |->
                 IF o = "opA"
                 THEN <<ExactResourceID("configmaps", "kube-system", "kube-root-ca.crt"),
                        ExactResourceID("secrets", "", "bar")>>
                 ELSE <<>>]

ChanObjects(kind) == {Obj(kind, "kube-system", n) : n \in ObjNames}

InitChan == Started(ChanInput)

NextChan ==
    \/ \E p \in 1..Len(handlers) : \E o \in ChanObjects(handlers[p].gvk) :
          calls < MaxCalls /\ AddFunc(p, Live(o))
    \/ \E p \in 1..Len(handlers) : \E o \in ChanObjects(handlers[p].gvk) :
          calls < MaxCalls /\ UpdateFunc(p, Live(o))
    \/ \E p \in 1..Len(handlers) : \E o \in ChanObjects(handlers[p].gvk) :
          calls < MaxCalls /\ DeleteFunc(p, Tombstone(o))
    \/ \E p \in 1..Len(handlers) : SendEnqueue(p)
    \/ \E p \in 1..Len(handlers) : SendBlock(p)
    \/ Receive

SpecChan == InitChan /\ [][NextChan]_vars

----------------------------------------------------------------------------
\* Specification of the dispatcher as a component: a dispatcher made by
\* newEventDispatcher from the filters of an input, and callbacks that call
\* Handle with every kind, also with kinds the dispatcher holds no filter for

HandleInputs ==
    {NoInputResources,
     [o \in Owners |-> IF o = "opA" THEN <<ExactResourceID("configmaps", "", "")>>
                       ELSE <<>>],
     [o \in Owners |-> IF o = "opB" THEN <<ExactResourceID("secrets", "", "bar")>>
                       ELSE <<>>]}

\* one caller of Handle per kind
AnyCaller == <<[operator |-> NoOperator, gvk |-> "ConfigMap"],
               [operator |-> NoOperator, gvk |-> "Secret"]>>

HandlePayloads(kind) ==
    {Live(o) : o \in ChanObjects(kind)}
    \cup {Tombstone(o) : o \in ChanObjects(kind) \cup {NotAnObject}}
    \cup {Other}

InitHandle ==
    /\ inputResources \in HandleInputs
    /\ startPc = "done"
    /\ startErr = NoErr
    /\ pendingOwners = {}
    /\ operator = NoOperator
    /\ idx = 1
    /\ registeredGVK = {}
    /\ gvkForHandler = NoKind
    /\ informers = Kinds
    /\ hydrated = Kinds
    /\ cacheStarted = TRUE
    /\ handlers = AnyCaller
    /\ prod = [i \in 1..Len(AnyCaller) |-> IdleProducer]
    /\ dispatcher = newEventDispatcher(
                        buildInputResourceFilters(inputResources, <<"opA", "opB">>).filters)
    /\ rInputResources = inputResources
    /\ syncedCh = "closed"
    /\ cacheSyncReturned = "true"
    /\ cancelled = FALSE
    /\ cancelledEarly = FALSE
    /\ wfsPc = "idle"
    /\ wfsResult = "none"
    /\ wfsCalledSynced = FALSE
    /\ DispatchIdle
    /\ CodecIdle

NextHandle ==
    \/ \E p \in 1..Len(handlers) : \E payload \in HandlePayloads(handlers[p].gvk) :
          calls < MaxCalls /\ AddFunc(p, payload)
    \/ \E p \in 1..Len(handlers) : \E payload \in HandlePayloads(handlers[p].gvk) :
          calls < MaxCalls /\ UpdateFunc(p, payload)
    \/ \E p \in 1..Len(handlers) : \E payload \in HandlePayloads(handlers[p].gvk) :
          calls < MaxCalls /\ DeleteFunc(p, payload)
    \/ \E p \in 1..Len(handlers) : SendEnqueue(p)
    \/ \E p \in 1..Len(handlers) : SendBlock(p)
    \/ Receive

SpecHandle == InitHandle /\ [][NextHandle]_vars

----------------------------------------------------------------------------
\* The initializer whose handlers are bound to a selector: Start of lines 33-90
\* registers, per operator and kind, callbacks that call Handle(exactResource, obj)
\* of the dispatcher of lines 530-550

\* clientObjectFromEvent, lines 552-562
clientObjectFromEvent(payload) ==
    IF payload.shape = "object" THEN [ok |-> TRUE, obj |-> payload.obj]
    ELSE IF payload.shape # "tombstone" THEN [ok |-> FALSE, obj |-> NotAnObject]
    ELSE [ok |-> payload.obj # NotAnObject, obj |-> payload.obj]

\* Handle(def, obj), lines 538-550: the events it sends
HandleDef(def, payload) ==
    LET c == clientObjectFromEvent(payload) IN
    IF ~c.ok THEN <<>>
    ELSE IF def.ns # "" /\ c.obj.ns # def.ns THEN <<>>
    ELSE IF def.name # "" /\ c.obj.name # def.name THEN <<>>
    ELSE <<[obj |-> c.obj]>>

\* the registrations the inner loop of Start makes for one operator (lines 44-80):
\* the callbacks capture the selector of the iteration that registers the kind
RECURSIVE registerLoopSelector(_, _, _, _)
registerLoopSelector(op, list, i, registered) ==
    IF i > Len(list) THEN <<>>
    ELSE LET gvk == KindFor(list[i].res) IN
         IF gvk \in registered THEN registerLoopSelector(op, list, i + 1, registered)
         ELSE <<[operator |-> op, gvk |-> gvk, def |-> list[i]]>>
              \o registerLoopSelector(op, list, i + 1, registered \cup {gvk})

RECURSIVE selectorHandlersOf(_, _, _)
selectorHandlersOf(input, order, i) ==
    IF i > Len(order) THEN <<>>
    ELSE registerLoopSelector(order[i], input[order[i]], 1, {})
         \o selectorHandlersOf(input, order, i + 1)

\* One callback of a selector-bound handler runs up to the channel send; sends is
\* what the function it calls decided. No error is reported on any path.
SelectorCallback(p, cb, payload, sends) ==
    /\ p \in 1..Len(handlers)
    /\ prod[p].pc = "idle"
    /\ calls' = calls + 1
    /\ lastCall' = [p |-> p, cb |-> cb, payload |-> payload, gvk |-> handlers[p].gvk,
                    sends |-> sends, evaluated |-> 1]
    /\ IF sends = <<>>
       THEN UNCHANGED <<prod, accepted>>
       ELSE /\ accepted' = accepted + 1
            /\ prod' = [prod EXCEPT ![p] =
                          [pc |-> "send",
                           ev |-> [obj |-> sends[1].obj, seq |-> calls + 1,
                                   blockedAt |-> 0]]]
    /\ UNCHANGED <<coarseVars, callerFilters, codecVars, startVars, events, sendq, delivered, handledErrors>>

\* closures that share one loop variable: after the loop it holds the last selector
capturedDefShared(p) ==
    LET list == inputResources[handlers[p].operator] IN list[Len(list)]

\* the selector a callback of registration p reads: the range variable of the
\* iteration that registered it (each iteration has its own variable; the packages
\* use source.Channel(ch, handler) and typed work queues, whose modules need a
\* language version with per-iteration loop variables)
capturedDef(p) == handlers[p].def

\* the callbacks of lines 66-74
HandleAddFunc(p, payload) ==
    SelectorCallback(p, "add", payload, HandleDef(capturedDef(p), payload))
HandleUpdateFunc(p, payload) ==
    SelectorCallback(p, "update", payload, HandleDef(capturedDef(p), payload))
HandleDeleteFunc(p, payload) ==
    SelectorCallback(p, "delete", payload, HandleDef(capturedDef(p), payload))

\* what discoverInputResources of lines 92-136 returns, under operator opA
DiscoveredInput ==
    [o \in Owners |->
        IF o = "opA"
        THEN <<ExactResourceID("configmaps", "kube-system", "kube-root-ca.crt"),
               ExactResourceID("configmaps", "kube-system", "kubeadm-config"),
               ExactResourceID("secrets", "kube-system", "bootstrap-token-abcdef"),
               ExactResourceID("nodes", "", "kind-control-plane")>>
        ELSE <<>>]

\* the two configmap selectors owned by different operators
SplitInput ==
    [o \in Owners |->
        IF o = "opA"
        THEN <<ExactResourceID("configmaps", "kube-system", "kube-root-ca.crt")>>
        ELSE <<ExactResourceID("configmaps", "kube-system", "kubeadm-config")>>]

SelectorInputs == {DiscoveredInput, SplitInput}

SelectorObjects(kind) ==
    CASE kind = "ConfigMap" ->
            {Obj(kind, "kube-system", n) : n \in {"kube-root-ca.crt", "kubeadm-config", "other"}}
      [] kind = "Secret" -> {Obj(kind, "kube-system", "bootstrap-token-abcdef")}
      [] OTHER -> {Obj(kind, "", "kind-control-plane")}

SelectorPayloads(kind) ==
    {Live(o) : o \in SelectorObjects(kind)}
    \cup {Tombstone(o) : o \in SelectorObjects(kind) \cup {NotAnObject}}
    \cup {Other}

\* Start of lines 33-90 has returned nil
InitSelector ==
    /\ inputResources \in SelectorInputs
    /\ startPc = "done"
    /\ startErr = NoErr
    /\ pendingOwners = {}
    /\ operator = NoOperator
    /\ idx = 1
    /\ registeredGVK = {}
    /\ gvkForHandler = NoKind
    /\ informers = RequiredKinds(inputResources)
    /\ hydrated = RequiredKinds(inputResources)
    /\ cacheStarted = TRUE
    /\ \E order \in OwnerOrders : handlers = selectorHandlersOf(inputResources, order, 1)
    /\ prod = [i \in 1..Len(handlers) |-> IdleProducer]
    /\ dispatcher = Nil
    /\ rInputResources = Nil
    /\ syncedCh = "closed"
    /\ cacheSyncReturned = "true"
    /\ cancelled = FALSE
    /\ cancelledEarly = FALSE
    /\ wfsPc = "idle"
    /\ wfsResult = "none"
    /\ wfsCalledSynced = FALSE
    /\ DispatchIdle
    /\ CodecIdle

NextSelector ==
    \/ \E p \in 1..Len(handlers) : \E payload \in SelectorPayloads(handlers[p].gvk) :
          calls < MaxCalls /\ HandleAddFunc(p, payload)
    \/ \E p \in 1..Len(handlers) : \E payload \in SelectorPayloads(handlers[p].gvk) :
          calls < MaxCalls /\ HandleUpdateFunc(p, payload)
    \/ \E p \in 1..Len(handlers) : \E payload \in SelectorPayloads(handlers[p].gvk) :
          calls < MaxCalls /\ HandleDeleteFunc(p, payload)
    \/ \E p \in 1..Len(handlers) : SendEnqueue(p)
    \/ \E p \in 1..Len(handlers) : SendBlock(p)
    \/ Receive

SpecSelector == InitSelector /\ [][NextSelector]_vars

----------------------------------------------------------------------------
\* Specification of the program of main.go: the registration runnable registers one
\* handler per selector of the package-level list, the callbacks call
\* enqueueIfMatch with the selector they captured

\* operatorNameFromResource: the one operator of main.go
MainOwner == "example-operator"

\* var inputResources, lines 41-68
MainInputResources ==
    [o \in {MainOwner} |->
        <<ExactResourceID("configmaps", "kube-system", "kube-root-ca.crt"),
          ExactResourceID("secrets", "kube-system", "bootstrap-token-abcdef"),
          ExactResourceID("nodes", "", "kind-control-plane")>>]

\* an enqueueIfMatch that does not compare the name
enqueueIfMatchIgnoresName(def, payload) ==
    LET c == clientObjectFromEvent(payload) IN
    IF ~c.ok THEN <<>>
    ELSE IF def.ns # "" /\ c.obj.ns # def.ns THEN <<>>
    ELSE <<[obj |-> c.obj]>>

\* enqueueIfMatch(def, obj, events), lines 245-257: the events it sends
enqueueIfMatch(def, payload) ==
    LET c == clientObjectFromEvent(payload) IN
    IF ~c.ok THEN <<>>
    ELSE IF def.ns # "" /\ c.obj.ns # def.ns THEN <<>>
    ELSE IF def.name # "" /\ c.obj.name # def.name THEN <<>>
    ELSE <<[obj |-> c.obj]>>

\* the runnable is started by the manager (lines 171-172)
MainRunnableCall ==
    /\ startPc = "idle"
    /\ startPc' = "rangeResources"
    /\ operator' = MainOwner
    /\ idx' = 1
    /\ UNCHANGED <<inputResources, startErr, pendingOwners, registeredGVK, gvkForHandler,
                   cacheVars, handlers, initializerVars, ctxVars, wfsVars, dispatchVars,
                   codecVars, callerFilters, coarseVars>>

\* lines 173-178: one iteration up to the call of GetInformer; every selector gets
\* its own registration
MainRange ==
    /\ startPc = "rangeResources"
    /\ IF idx > Len(inputResources[operator])
       THEN /\ startPc' = "waitForCacheSync"
            /\ UNCHANGED <<startErr, loopVars, informers>>
       ELSE LET def == inputResources[operator][idx]
                gvk == KindFor(def.res) IN
            IF gvk = NoKind
            THEN /\ Return(KindErr(def, operator))
                 /\ UNCHANGED informers
            ELSE /\ gvkForHandler' = gvk
                 /\ informers' = informers \cup {gvk}
                 /\ startPc' = "getInformerForKind"
                 /\ UNCHANGED <<startErr, pendingOwners, operator, idx, registeredGVK>>
    /\ UNCHANGED <<inputResources, hydrated, cacheStarted, handlers, initializerVars,
                   ctxVars, wfsVars, dispatchVars, codecVars, callerFilters, coarseVars>>

\* lines 183-196: AddEventHandler succeeds; the callbacks capture def
MainAddEventHandlerOk ==
    /\ startPc = "addEventHandler"
    /\ handlers' = Append(handlers, [operator |-> operator, gvk |-> gvkForHandler,
                                     def |-> inputResources[operator][idx]])
    /\ prod' = Append(prod, IdleProducer)
    /\ idx' = idx + 1
    /\ startPc' = "rangeResources"
    /\ UNCHANGED <<inputResources, startErr, pendingOwners, operator, registeredGVK,
                   gvkForHandler, cacheVars, initializerVars, ctxVars, wfsVars, events,
                   sendq, calls, accepted, handledErrors, lastCall, delivered, codecVars,
                   callerFilters, coarseVars>>

\* the informer of a registered handler delivers a notification
MainAddFunc(p, payload) ==
    /\ cacheStarted
    /\ handlers[p].gvk \in hydrated
    /\ SelectorCallback(p, "add", payload, enqueueIfMatch(capturedDef(p), payload))
MainUpdateFunc(p, payload) ==
    /\ cacheStarted
    /\ handlers[p].gvk \in hydrated
    /\ SelectorCallback(p, "update", payload, enqueueIfMatch(capturedDef(p), payload))
MainDeleteFunc(p, payload) ==
    /\ cacheStarted
    /\ handlers[p].gvk \in hydrated
    /\ SelectorCallback(p, "delete", payload, enqueueIfMatch(capturedDef(p), payload))

MainObjects(kind) ==
    CASE kind = "ConfigMap" ->
            {Obj(kind, "kube-system", n) : n \in {"kube-root-ca.crt", "other"}}
      [] kind = "Secret" -> {Obj(kind, "kube-system", "bootstrap-token-abcdef")}
      [] OTHER -> {Obj(kind, "", "kind-control-plane")}

MainPayloads(kind) == {Live(o) : o \in MainObjects(kind)}
MainDeletePayloads(kind) == {Tombstone(o) : o \in MainObjects(kind)}

InitMain == Created({MainInputResources}) /\ CodecIdle

NextMain ==
    \/ MainRunnableCall
    \/ MainRange
    \/ GetInformerOk
    \/ GetInformerErr
    \/ MainAddEventHandlerOk
    \/ AddEventHandlerErr
    \/ WaitForCacheSync
    \/ CacheStart
    \/ Hydrate
    \/ Cancel
    \/ \E p \in 1..Len(handlers) : \E payload \in MainPayloads(handlers[p].gvk) :
          calls < MaxCalls /\ MainAddFunc(p, payload)
    \/ \E p \in 1..Len(handlers) : \E payload \in MainPayloads(handlers[p].gvk) :
          calls < MaxCalls /\ MainUpdateFunc(p, payload)
    \/ \E p \in 1..Len(handlers) : \E payload \in MainDeletePayloads(handlers[p].gvk) :
          calls < MaxCalls /\ MainDeleteFunc(p, payload)
    \/ \E p \in 1..Len(handlers) : SendEnqueue(p)
    \/ \E p \in 1..Len(handlers) : SendBlock(p)
    \/ Receive

SpecMain == InitMain /\ [][NextMain]_vars

----------------------------------------------------------------------------
\* Specification of the caller's map: a caller builds a filter map, hands it to
\* newEventDispatcher, keeps it and changes it afterwards, while callbacks call
\* Handle. A change reaches the dispatcher only through storage the two share.

\* the resource name that resolves to a kind
ResourceOf(k) ==
    CASE k = "ConfigMap" -> "configmaps"
      [] k = "Secret"    -> "secrets"
      [] k = "Node"      -> "nodes"

\* the kinds the callers of Handle are registered for
CallerKinds == {AnyCaller[i].gvk : i \in 1..Len(AnyCaller)}

\* the filters the caller puts into its map after construction
CallerFilterPool(k) == {ExactResourceID(ResourceOf(k), "", ""),
                        ExactResourceID(ResourceOf(k), "", "bar")}

\* what d.filters reads once the caller's map holds m
seenByDispatcher(m) ==
    IF dispatcher.aliased THEN [dispatcher EXCEPT !.filters = m] ELSE dispatcher

\* filters[k] = list in the caller's map
CallerStore(k, list) ==
    /\ callerFilters # Nil
    /\ callerFilters' = [callerFilters EXCEPT ![k] = list]
    /\ dispatcher' = seenByDispatcher(callerFilters')
    /\ UNCHANGED <<inputResources, startPc, startErr, loopVars, cacheVars, handlers,
                   rInputResources, syncedCh, cacheSyncReturned, ctxVars, wfsVars,
                   dispatchVars, codecVars, coarseVars>>

\* filters[k] = []eventFilter{f} for a kind the map does not hold
CallerAddKind(k, f) == callerFilters[k] = <<>> /\ CallerStore(k, <<f>>)

\* delete(filters, k)
CallerRemoveKind(k) == callerFilters[k] # <<>> /\ CallerStore(k, <<>>)

\* filters[k] = []eventFilter{f} for a kind the map holds
CallerReplaceList(k, f) ==
    /\ callerFilters[k] # <<>>
    /\ callerFilters[k] # <<f>>
    /\ CallerStore(k, <<f>>)

\* filters[k] = append(filters[k], f)
CallerAppend(k, f) ==
    /\ callerFilters[k] # <<>>
    /\ Len(callerFilters[k]) <= MaxSel
    /\ CallerStore(k, Append(callerFilters[k], f))

InitCaller ==
    /\ inputResources \in HandleInputs
    /\ startPc = "done"
    /\ startErr = NoErr
    /\ pendingOwners = {}
    /\ operator = NoOperator
    /\ idx = 1
    /\ registeredGVK = {}
    /\ gvkForHandler = NoKind
    /\ informers = Kinds
    /\ hydrated = Kinds
    /\ cacheStarted = TRUE
    /\ handlers = AnyCaller
    /\ prod = [i \in 1..Len(AnyCaller) |-> IdleProducer]
    /\ callerFilters = buildInputResourceFilters(inputResources, <<"opA", "opB">>).filters
    /\ requests = <<>>
    /\ env = Nil
    /\ dispatcher = newEventDispatcher(callerFilters)
    /\ rInputResources = inputResources
    /\ syncedCh = "closed"
    /\ cacheSyncReturned = "true"
    /\ cancelled = FALSE
    /\ cancelledEarly = FALSE
    /\ wfsPc = "idle"
    /\ wfsResult = "none"
    /\ wfsCalledSynced = FALSE
    /\ DispatchIdle
    /\ ref = Nil
    /\ req = Nil
    /\ parsed = Nil
    /\ gets = <<>>
    /\ result = Nil

NextCaller ==
    \/ \E k \in CallerKinds : \E f \in CallerFilterPool(k) : CallerAddKind(k, f)
    \/ \E k \in CallerKinds : CallerRemoveKind(k)
    \/ \E k \in CallerKinds : \E f \in CallerFilterPool(k) : CallerReplaceList(k, f)
    \/ \E k \in CallerKinds : \E f \in CallerFilterPool(k) : CallerAppend(k, f)
    \/ \E p \in 1..Len(handlers) : \E o \in ChanObjects(handlers[p].gvk) :
          calls = 0 /\ AddFunc(p, Live(o))
    \/ \E p \in 1..Len(handlers) : \E o \in ChanObjects(handlers[p].gvk) :
          calls = 0 /\ UpdateFunc(p, Live(o))
    \/ \E p \in 1..Len(handlers) : \E o \in ChanObjects(handlers[p].gvk) :
          calls = 0 /\ DeleteFunc(p, Tombstone(o))
    \/ \E p \in 1..Len(handlers) : SendEnqueue(p)
    \/ Receive

SpecCaller == InitCaller /\ [][NextCaller]_vars

----------------------------------------------------------------------------
\* Specification of cancellation: the callers that can be suspended (WaitForSync,
\* the send of Handle) and a context that is cancelled at any moment. The channel
\* source stops receiving once the context is done.

\* the consumer of the events channel, which selects on ctx.Done()
ReceiveUntilCancelled == ~cancelled /\ Receive

InitCancel ==
    \/ Started(ChanInput)
    \/ Created({ChanInput}) /\ CodecIdle

NextCancel ==
    \/ \E p \in 1..Len(handlers) : \E o \in ChanObjects(handlers[p].gvk) :
          calls < MaxCalls /\ ~cancelled /\ AddFunc(p, Live(o))
    \/ \E p \in 1..Len(handlers) : SendEnqueue(p)
    \/ \E p \in 1..Len(handlers) : SendBlock(p)
    \/ ReceiveUntilCancelled
    \/ Cancel
    \/ WaitForSyncCall
    \/ WaitForSyncReturn

\* every goroutine that can take a step eventually takes it
SpecCancel ==
    /\ InitCancel
    /\ [][NextCancel]_vars
    /\ WF_vars(\E p \in 1..Len(handlers) : SendEnqueue(p))
    /\ WF_vars(\E p \in 1..Len(handlers) : SendBlock(p))
    /\ WF_vars(ReceiveUntilCancelled)
    /\ WF_vars(WaitForSyncReturn)

----------------------------------------------------------------------------
\* Specification of the sync signal under load: Start runs while the registered
\* handlers already deliver notifications and nothing receives from the event
\* channel, so the channel fills up and the senders park

\* WaitForCacheSync returns true
WaitForCacheSyncTrue == WaitForCacheSync /\ cacheSyncReturned' = "true"

NextSignal ==
    \/ Next
    \/ \E p \in 1..Len(handlers) : \E o \in ChanObjects(handlers[p].gvk) :
          calls < MaxCalls /\ ~cancelled /\ AddFunc(p, Live(o))
    \/ \E p \in 1..Len(handlers) : SendEnqueue(p)
    \/ \E p \in 1..Len(handlers) : SendBlock(p)

InitSignal == Created({ChanInput}) /\ CodecIdle

\* the goroutine of Start, the cache and a waiting WaitForSync take the steps they
\* can take; nothing is assumed about the consumer of the channel
SpecSignal ==
    /\ InitSignal
    /\ [][NextSignal]_vars
    /\ WF_vars(StartCall)
    /\ WF_vars(RangeOperators)
    /\ WF_vars(RangeResources)
    /\ WF_vars(GetInformerOk)
    /\ WF_vars(AddEventHandlerOk)
    /\ WF_vars(WaitForCacheSyncTrue)
    /\ WF_vars(CacheStart)
    /\ WF_vars(Hydrate)
    /\ WF_vars(WaitForSyncReturn)

----------------------------------------------------------------------------
\* Properties of the registration and the sync handshake

\* number of AddEventHandler registrations made for kind k
RegistrationsOf(k) == Cardinality({i \in 1..Len(handlers) : handlers[i].gvk = k})

\* the nested range loops ran to their end without an error
RegistrationDone ==
    \/ startPc = "waitForCacheSync"
    \/ startPc = "done" /\ cacheSyncReturned # "none"

\* C1: once the registration phase of Start has completed, every distinct kind the
\* selectors resolve to has exactly one event-handler registration, also when
\* selectors of different operators resolve to it.
C1_OneRegistrationPerKind ==
    RegistrationDone =>
        \A k \in RequiredKinds(inputResources) : RegistrationsOf(k) = 1

\* C4: WaitForSync returns nil only when the synced channel is closed, the
\* registration loop finished without error (every selector of every operator has
\* its handler), WaitForCacheSync returned true and every registered stream is
\* hydrated.
C4_SyncOnlyAfterHydration ==
    wfsResult = "nil" =>
        /\ syncedCh = "closed"
        /\ startPc = "done" /\ startErr = NoErr
        /\ cacheSyncReturned = "true"
        /\ cacheStarted
        /\ \A i \in 1..Len(handlers) : handlers[i].gvk \in hydrated
        /\ \A o \in DOMAIN inputResources : \A i \in 1..Len(inputResources[o]) :
              \E h \in 1..Len(handlers) :
                 handlers[h] = [operator |-> o, gvk |-> KindFor(inputResources[o][i].res)]

C4_Witness ==
    /\ wfsResult = "nil"
    /\ Len(handlers) >= 2
    /\ cancelled

\* C5 as stated: if the context is cancelled before the watch streams are hydrated,
\* Start returns the context's error without closing the synced channel and no
\* WaitForSync call returns success.
C5_StartReturnsCtxErr ==
    (cancelledEarly /\ Resolvable(inputResources)) =>
        /\ startPc = "done" => (startErr = CtxErr /\ syncedCh = "open")
        /\ wfsResult # "nil"

\* C5 amended: if the context is cancelled before the watch streams are hydrated,
\* Start returns a non-nil error (the context's error when the final
\* WaitForCacheSync observes the cancellation, otherwise the error of the step that
\* failed) without closing the synced channel, and a WaitForSync call can only
\* return the cancellation error.
C5_CancelledBeforeHydration ==
    cancelledEarly =>
        /\ startPc = "done" => startErr # NoErr
        /\ cacheSyncReturned = "false" => startErr = CtxErr
        /\ cacheSyncReturned # "true"
        /\ syncedCh = "open"
        /\ wfsResult \in {"none", "ctxErr"}

C5_Witness ==
    /\ cancelledEarly
    /\ startPc = "done"
    /\ startErr = CtxErr
    /\ Len(handlers) >= 1
    /\ wfsResult = "ctxErr"

----------------------------------------------------------------------------
\* The request codec of the per-object reconciler (src/unnamed/part_002).
\* A string is a sequence of one-character strings.

MaxNameLen == 3   \* longest object name handed to requestFor
MaxKeyLen == 5    \* longest request name put on the queue by hand

emptyGroupToken == <<"_">>
gvkPartSeparator == <<"/">>
gvkNameSeparator == <<":", ":">>

\* strings.Index: the position of the first occurrence of sep in s, 0 if there is none
Index(s, sep) ==
    LET at == {i \in 1..Len(s) : /\ i + Len(sep) - 1 <= Len(s)
                                 /\ SubSeq(s, i, i + Len(sep) - 1) = sep} IN
    IF at = {} THEN 0 ELSE CHOOSE i \in at : \A j \in at : i <= j

\* the position of the last occurrence of sep in s, 0 if there is none
LastIndex(s, sep) ==
    LET at == {i \in 1..Len(s) : /\ i + Len(sep) - 1 <= Len(s)
                                 /\ SubSeq(s, i, i + Len(sep) - 1) = sep} IN
    IF at = {} THEN 0 ELSE CHOOSE i \in at : \A j \in at : i >= j

\* a split that cuts at the last separator instead of the first
SplitNLast(s, sep, n) ==
    LET i == LastIndex(s, sep) IN
    IF n <= 1 \/ i = 0 THEN <<s>>
    ELSE <<SubSeq(s, 1, i - 1), SubSeq(s, i + Len(sep), Len(s))>>

\* strings.SplitN for n > 0: at most n substrings, the last one is the unsplit rest
RECURSIVE SplitN(_, _, _)
SplitN(s, sep, n) ==
    LET i == Index(s, sep) IN
    IF n <= 1 \/ i = 0 THEN <<s>>
    ELSE <<SubSeq(s, 1, i - 1)>> \o SplitN(SubSeq(s, i + Len(sep), Len(s)), sep, n - 1)

\* strings.Split: all substrings between the separators
Split(s, sep) == SplitN(s, sep, Len(s) + 1)

GroupVersionKind(g, v, k) == [Group |-> g, Version |-> v, Kind |-> k]
ObjectKey(ns, name) == [Namespace |-> ns, Name |-> name]
EmptyGVK == GroupVersionKind(<<>>, <<>>, <<>>)
EmptyKey == ObjectKey(<<>>, <<>>)

InvalidGVKErr(encoded) == [type |-> "invalid gvk encoding", arg |-> encoded]
MissingPrefixErr(name) == [type |-> "request name missing gvk prefix", arg |-> name]
GetErr == [type |-> "Get", arg |-> <<>>]

\* an encoding that leaves the group out
encodeGVKWithoutGroup(gvk) ==
    gvk.Version \o gvkPartSeparator \o gvk.Kind

encodeGVK(gvk) ==
    LET group == IF gvk.Group = <<>> THEN emptyGroupToken ELSE gvk.Group IN
    group \o gvkPartSeparator \o gvk.Version \o gvkPartSeparator \o gvk.Kind

\* a decoder that accepts any number of fields
decodeGVKLenient(encoded) ==
    LET parts == Split(encoded, gvkPartSeparator) \o <<<<>>, <<>>>> IN
    [gvk |-> GroupVersionKind(IF parts[1] = emptyGroupToken THEN <<>> ELSE parts[1],
                              parts[2], parts[3]),
     err |-> NoErr]

decodeGVK(encoded) ==
    LET parts == Split(encoded, gvkPartSeparator) IN
    IF Len(parts) # 3
    THEN [gvk |-> EmptyGVK, err |-> InvalidGVKErr(encoded)]
    ELSE LET group == IF parts[1] = emptyGroupToken THEN <<>> ELSE parts[1] IN
         [gvk |-> GroupVersionKind(group, parts[2], parts[3]), err |-> NoErr]

requestFor(gvk, obj) ==
    LET name == encodeGVK(gvk) \o gvkNameSeparator \o obj.Name IN
    ObjectKey(obj.Namespace, name)

\* a parser that cuts the name at the last "::" instead of the first
parseRequestAtLastSeparator(key) ==
    LET parts == SplitNLast(key.Name, gvkNameSeparator, 2) IN
    IF Len(parts) # 2
    THEN [gvk |-> EmptyGVK, key |-> EmptyKey, err |-> MissingPrefixErr(key.Name)]
    ELSE LET d == decodeGVK(parts[1]) IN
         IF d.err # NoErr
         THEN [gvk |-> EmptyGVK, key |-> EmptyKey, err |-> d.err]
         ELSE [gvk |-> d.gvk, key |-> ObjectKey(key.Namespace, parts[2]), err |-> NoErr]

parseRequest(key) ==
    LET parts == SplitN(key.Name, gvkNameSeparator, 2) IN
    IF Len(parts) # 2
    THEN [gvk |-> EmptyGVK, key |-> EmptyKey, err |-> MissingPrefixErr(key.Name)]
    ELSE LET d == decodeGVK(parts[1]) IN
         IF d.err # NoErr
         THEN [gvk |-> EmptyGVK, key |-> EmptyKey, err |-> d.err]
         ELSE [gvk |-> d.gvk, key |-> ObjectKey(key.Namespace, parts[2]), err |-> NoErr]

\* the map function of a watch (main, lines 129-131) puts the request of a changed
\* object on the work queue
RequestFor ==
    /\ ref # Nil
    /\ req = Nil
    /\ req' = requestFor(ref.gvk, ref.obj)
    /\ UNCHANGED <<coarseVars, callerFilters, startVars, dispatchVars, ref, parsed, gets, result>>

\* Reconcile, lines 63-79: getOutcome is what r.Get does if it is reached
Reconcile(getOutcome) ==
    /\ req # Nil
    /\ result = Nil
    /\ LET p == parseRequest(req) IN
       /\ parsed' = p
       /\ IF p.err # NoErr
          THEN /\ result' = [err |-> p.err]
               /\ UNCHANGED gets
          ELSE /\ gets' = Append(gets, [gvk |-> p.gvk, key |-> p.key])
               /\ result' = [err |-> IF getOutcome = "error" THEN GetErr ELSE NoErr]
    /\ UNCHANGED <<coarseVars, callerFilters, startVars, dispatchVars, ref, req>>

\* the inputs: identifiers of the API (no separator characters, the group may be
\* empty), names over an alphabet that holds the characters of both separators, and
\* arbitrary request names, which may also hold the empty-group token
Groups == {<<>>, <<"g">>}
Versions == {<<"v">>, <<"w">>}
CodecKinds == {<<"K">>, <<"L">>}
Namespaces == {<<>>, <<"n">>}
NameChars == {"a", ":", "/"}
KeyChars == NameChars \cup {"_"}
Names == SeqsUpTo(NameChars, MaxNameLen)

Refs == {[gvk |-> GroupVersionKind(g, v, k), obj |-> ObjectKey(ns, n)] :
            g \in Groups, v \in Versions, k \in CodecKinds, ns \in Namespaces, n \in Names}

RawRequests == {ObjectKey(ns, n) : ns \in Namespaces, n \in SeqsUpTo(KeyChars, MaxKeyLen)}

InitCodec ==
    /\ Created({NoInputResources})
    /\ callerFilters = Nil
    /\ requests = <<>>
    /\ env = Nil
    /\ cacheStarted = FALSE
    /\ parsed = Nil
    /\ gets = <<>>
    /\ result = Nil
    /\ \/ ref \in Refs /\ req = Nil
       \/ ref = Nil /\ req \in RawRequests

NextCodec ==
    \/ RequestFor
    \/ \E getOutcome \in {"found", "not found", "error"} : Reconcile(getOutcome)

SpecCodec == InitCodec /\ [][NextCodec]_vars

----------------------------------------------------------------------------
\* The coarse routing (src/reconciler.go, src/main.go): every event taken from the
\* channel is mapped to the request of its operator

operatorNameFromResource(obj) == MainOwner

\* a request that names the object
requestForOperatorPerObject(operatorName, obj) == ObjectKey(obj.ns, obj.name)

\* reconcile.Request{NamespacedName: client.ObjectKey{Name: name}}
requestForOperator(operatorName, obj) == ObjectKey("", operatorName)

\* the function handed to handler.EnqueueRequestsFromMapFunc: the requests it returns
mapFunc(obj) == <<requestForOperator(operatorNameFromResource(obj), obj)>>

\* source.Channel receives the oldest event and hands it to the map function; a
\* parked sender moves up as in Receive
ChannelSourceReceive ==
    /\ events # <<>>
    /\ delivered' = Append(delivered, Head(events))
    /\ requests' = Append(requests, mapFunc(Head(events).obj))
    /\ IF sendq = <<>>
       THEN /\ events' = Tail(events)
            /\ UNCHANGED <<sendq, prod>>
       ELSE /\ events' = Append(Tail(events), prod[Head(sendq)].ev)
            /\ prod' = [prod EXCEPT ![Head(sendq)] = IdleProducer]
            /\ sendq' = Tail(sendq)
    /\ UNCHANGED <<env, callerFilters, codecVars, startVars, calls, accepted, handledErrors,
                   lastCall>>

\* the registration runnable has returned nil: one handler per selector of the list
InitRouting ==
    /\ inputResources = MainInputResources
    /\ startPc = "done"
    /\ startErr = NoErr
    /\ pendingOwners = {}
    /\ operator = NoOperator
    /\ idx = 1
    /\ registeredGVK = {}
    /\ gvkForHandler = NoKind
    /\ informers = RequiredKinds(inputResources)
    /\ hydrated = RequiredKinds(inputResources)
    /\ cacheStarted = TRUE
    /\ handlers = [i \in 1..Len(inputResources[MainOwner]) |->
                     [operator |-> MainOwner,
                      gvk |-> KindFor(inputResources[MainOwner][i].res),
                      def |-> inputResources[MainOwner][i]]]
    /\ prod = [i \in 1..Len(handlers) |-> IdleProducer]
    /\ dispatcher = Nil
    /\ rInputResources = Nil
    /\ syncedCh = "closed"
    /\ cacheSyncReturned = "true"
    /\ cancelled = FALSE
    /\ cancelledEarly = FALSE
    /\ wfsPc = "idle"
    /\ wfsResult = "none"
    /\ wfsCalledSynced = FALSE
    /\ DispatchIdle
    /\ CodecIdle

NextRouting ==
    \/ \E p \in 1..Len(handlers) : \E payload \in MainPayloads(handlers[p].gvk) :
          calls < MaxCalls /\ MainAddFunc(p, payload)
    \/ \E p \in 1..Len(handlers) : \E payload \in MainPayloads(handlers[p].gvk) :
          calls < MaxCalls /\ MainUpdateFunc(p, payload)
    \/ \E p \in 1..Len(handlers) : \E payload \in MainDeletePayloads(handlers[p].gvk) :
          calls < MaxCalls /\ MainDeleteFunc(p, payload)
    \/ \E p \in 1..Len(handlers) : SendEnqueue(p)
    \/ \E p \in 1..Len(handlers) : SendBlock(p)
    \/ ChannelSourceReceive

SpecRouting == InitRouting /\ [][NextRouting]_vars

----------------------------------------------------------------------------
\* The coarse Reconcile (src/reconciler.go, src/unnamed/part_001): one request stands
\* for an operator, and Reconcile reads every selector of the stored set

\* what the mapper, the scheme, the cache and the converter do for one selector:
\* the first step that fails, or the result of the read
SelectorOutcomes == {"kindErr", "newErr", "notClientObject", "getErr", "convertErr",
                     "notFound", "found"}

ReconcileErr(outcome) == [type |-> outcome, arg |-> <<>>]

\* a Reconcile that treats a missing object as an error
RECURSIVE coarseReconcileLoopNotFoundFails(_, _, _, _)
coarseReconcileLoopNotFoundFails(flat, i, world, reads) ==
    IF i > Len(flat) THEN [err |-> NoErr, gets |-> reads]
    ELSE LET def == flat[i].def IN
         IF def.name = "" THEN coarseReconcileLoopNotFoundFails(flat, i + 1, world, reads)
         ELSE IF world[def] \in {"kindErr", "newErr", "notClientObject"}
         THEN [err |-> ReconcileErr(world[def]), gets |-> reads]
         ELSE LET read == [gvk |-> KindFor(def.res), key |-> ObjectKey(def.ns, def.name)] IN
              IF world[def] \in {"getErr", "convertErr", "notFound"}
              THEN [err |-> ReconcileErr(world[def]), gets |-> Append(reads, read)]
              ELSE coarseReconcileLoopNotFoundFails(flat, i + 1, world, Append(reads, read))

\* the loops of Reconcile (part_001 lines 50-96) over the selectors in the order the
\* ranges visit them: the error returned and the reads made
RECURSIVE coarseReconcileLoop(_, _, _, _)
coarseReconcileLoop(flat, i, world, reads) ==
    IF i > Len(flat) THEN [err |-> NoErr, gets |-> reads]
    ELSE LET def == flat[i].def IN
         IF def.name = "" THEN coarseReconcileLoop(flat, i + 1, world, reads)
         ELSE IF world[def] \in {"kindErr", "newErr", "notClientObject"}
         THEN [err |-> ReconcileErr(world[def]), gets |-> reads]
         ELSE LET read == [gvk |-> KindFor(def.res), key |-> ObjectKey(def.ns, def.name)] IN
              IF world[def] = "notFound"
              THEN coarseReconcileLoop(flat, i + 1, world, Append(reads, read))
              ELSE IF world[def] \in {"getErr", "convertErr"}
              THEN [err |-> ReconcileErr(world[def]), gets |-> Append(reads, read)]
              ELSE coarseReconcileLoop(flat, i + 1, world, Append(reads, read))

\* Reconcile of the request of an operator runs from its first statement to its return
CoarseReconcile ==
    /\ env # Nil
    /\ result = Nil
    /\ rInputResources # Nil
    /\ LET r == coarseReconcileLoop(Flatten(rInputResources, env.order, 1), 1, env.world, <<>>) IN
       /\ result' = [err |-> r.err]
       /\ gets' = r.gets
    /\ UNCHANGED <<startVars, dispatchVars, ref, req, parsed, callerFilters, coarseVars>>

ReconcilePool == {ExactResourceID("configmaps", "kube-system", "kube-root-ca.crt"),
                  ExactResourceID("nodes", "", "kind-control-plane"),
                  ExactResourceID("secrets", "kube-system", "")}

ReconcileInputs == {[o \in Owners |-> IF o = "opA" THEN a ELSE b] :
                       a \in SeqsUpTo(ReconcilePool, MaxSel),
                       b \in {<<>>} \cup {<<s>> : s \in ReconcilePool}}

\* the selectors Reconcile asks the cluster about
NamedSelectors == {s \in ReconcilePool : s.name # ""}

\* Start has returned nil for an input, and the cluster answers in some way
InitReconcile ==
    /\ inputResources \in ReconcileInputs
    /\ startPc = "done"
    /\ startErr = NoErr
    /\ pendingOwners = {}
    /\ operator = NoOperator
    /\ idx = 1
    /\ registeredGVK = {}
    /\ gvkForHandler = NoKind
    /\ informers = RequiredKinds(inputResources)
    /\ hydrated = RequiredKinds(inputResources)
    /\ cacheStarted = TRUE
    /\ handlers = handlersOf(inputResources, <<"opA", "opB">>, 1)
    /\ prod = [i \in 1..Len(handlers) |-> IdleProducer]
    /\ dispatcher = newEventDispatcher(
                        buildInputResourceFilters(inputResources, <<"opA", "opB">>).filters)
    /\ rInputResources = inputResources
    /\ syncedCh = "closed"
    /\ cacheSyncReturned = "true"
    /\ cancelled = FALSE
    /\ cancelledEarly = FALSE
    /\ wfsPc = "idle"
    /\ wfsResult = "none"
    /\ wfsCalledSynced = FALSE
    /\ DispatchIdle
    /\ callerFilters = Nil
    /\ requests = <<>>
    /\ env \in [order : OwnerOrders, world : [NamedSelectors -> SelectorOutcomes]]
    /\ ref = Nil
    /\ req = Nil
    /\ parsed = Nil
    /\ gets = <<>>
    /\ result = Nil

NextReconcile == CoarseReconcile

SpecReconcile == InitReconcile /\ [][NextReconcile]_vars

----------------------------------------------------------------------------
\* Properties of the dispatcher

\* a successful Start leaves a state of the form Started describes
StartedShape ==
    (startPc = "done" /\ startErr = NoErr) =>
        /\ \E order \in OwnerOrders : handlers = handlersOf(inputResources, order, 1)
        /\ \E order \in OwnerOrders :
              dispatcher = newEventDispatcher(
                               buildInputResourceFilters(inputResources, order).filters)
        /\ informers = RequiredKinds(inputResources)
        /\ hydrated = RequiredKinds(inputResources)
        /\ cacheStarted
        /\ rInputResources = inputResources
        /\ syncedCh = "closed"
        /\ Len(prod) = Len(handlers)

\* the events sent so far, oldest first: received, buffered, parked in a send
Parked == [i \in 1..Len(sendq) |-> prod[sendq[i]].ev]
Order == delivered \o events \o Parked

\* the objects of all events a Handle call has decided to send
SentObjects ==
    {Order[i].obj : i \in 1..Len(Order)}
    \cup {prod[p].ev.obj : p \in {q \in 1..Len(prod) : prod[q].pc = "send"}}

\* the selector matches the object: an empty field matches anything
SelMatches(s, x) ==
    /\ s.ns = "" \/ s.ns = x.ns
    /\ s.name = "" \/ s.name = x.name

\* the positions (operator, index) of the selectors that resolve to kind k
SelectorsOf(k) ==
    {oi \in Owners \X (1..MaxSel) :
        /\ oi[2] <= Len(inputResources[oi[1]])
        /\ KindFor(inputResources[oi[1]][oi[2]].res) = k}

\* the last callback was handed a live object of its kind
LiveCall == lastCall.cb # "none" /\ lastCall.payload.shape = "object"

\* C2: for a selector of kind K with namespace and name set, a change to the object
\* of kind K with that namespace and name sends exactly that object to the event
\* channel, and a change to an object of kind K with another namespace or name sends
\* nothing unless another selector of K matches the object.
C2_FilterCorrectness ==
    \A k \in Kinds : \A oi \in SelectorsOf(k) :
        LET s == inputResources[oi[1]][oi[2]]
            x == lastCall.payload.obj IN
        (s.ns # "" /\ s.name # "" /\ LiveCall /\ lastCall.gvk = k) =>
            /\ (x.ns = s.ns /\ x.name = s.name) => SentObjects = {x}
            /\ (x.ns # s.ns \/ x.name # s.name) =>
                  \/ SentObjects = {}
                  \/ /\ SentObjects = {x}
                     /\ \E oj \in SelectorsOf(k) \ {oi} :
                           SelMatches(inputResources[oj[1]][oj[2]], x)

C2_Witness ==
    /\ LiveCall
    /\ lastCall.cb = "update"
    /\ \E oi \in SelectorsOf(lastCall.gvk) :
          LET s == inputResources[oi[1]][oi[2]] IN
          /\ s.ns = lastCall.payload.obj.ns /\ s.name = lastCall.payload.obj.name
          /\ \A oj \in SelectorsOf(lastCall.gvk) \ {oi} :
                ~SelMatches(inputResources[oj[1]][oj[2]], lastCall.payload.obj)
    /\ Len(delivered) = 1
    /\ delivered[1].obj = lastCall.payload.obj

\* C3: the filter list of every kind holds the filters of exactly the selectors that
\* resolve to the kind, of every operator and at every position, and Handle(gvk, obj)
\* sends obj if and only if at least one of these selectors matches it.
C3_ForwardIffSomeSelectorMatches ==
    /\ dispatcher # Nil =>
          \A k \in Kinds :
             /\ Len(dispatcher.filters[k]) = Cardinality(SelectorsOf(k))
             /\ \A oi \in SelectorsOf(k) :
                   \E j \in 1..Len(dispatcher.filters[k]) :
                      dispatcher.filters[k][j] = inputResources[oi[1]][oi[2]]
    /\ LiveCall =>
          LET x == lastCall.payload.obj IN
          IF \E oi \in SelectorsOf(lastCall.gvk) :
                SelMatches(inputResources[oi[1]][oi[2]], x)
          THEN SentObjects = {x}
          ELSE SentObjects = {}

C3_Witness ==
    /\ LiveCall
    /\ handlers[lastCall.p].operator = "opA"
    /\ \E oi \in SelectorsOf(lastCall.gvk) :
          /\ oi[1] = "opB"
          /\ SelMatches(inputResources[oi[1]][oi[2]], lastCall.payload.obj)
    /\ \A oi \in SelectorsOf(lastCall.gvk) :
          oi[1] = "opA" => ~SelMatches(inputResources[oi[1]][oi[2]], lastCall.payload.obj)
    /\ Len(dispatcher.filters[lastCall.gvk]) >= 3
    /\ delivered # <<>>

\* C7: a delete callback that is handed a tombstone around object o evaluates the
\* filters of its kind against o and sends what a delete callback handed o itself
\* sends: one event carrying o if a filter matches, nothing otherwise, and no error.
C7_TombstoneAsLiveObject ==
    (/\ lastCall.cb = "delete"
     /\ lastCall.payload.shape = "tombstone"
     /\ lastCall.payload.obj # NotAnObject) =>
        LET o == lastCall.payload.obj IN
        /\ lastCall.sends = callbackSends(dispatcher, "delete", lastCall.gvk, Live(o))
        /\ lastCall.sends =
              IF \E j \in 1..Len(dispatcher.filters[lastCall.gvk]) :
                    exactResourceFilter(dispatcher.filters[lastCall.gvk][j], o)
              THEN <<[obj |-> o]>> ELSE <<>>
        /\ SentObjects = {lastCall.sends[i].obj : i \in 1..Len(lastCall.sends)}
        /\ handledErrors = 0

C7_Witness ==
    /\ lastCall.cb = "delete"
    /\ lastCall.payload.shape = "tombstone"
    /\ Len(delivered) = 1
    /\ delivered[1].obj = lastCall.payload.obj

----------------------------------------------------------------------------
\* Properties of the event channel

\* what C6 says apart from the order of delivery: the buffer never exceeds its
\* capacity; a Handle call that finds it full parks with its event, so no accepted
\* event is lost and no error is reported; a sender is parked only while the buffer
\* is full, so a receive moves the oldest parked event into the buffer
BlocksWithoutLoss ==
    /\ Len(events) <= ChanCap
    /\ accepted = Len(Order) + Cardinality({p \in 1..Len(prod) : prod[p].pc = "send"})
    /\ handledErrors = 0
    /\ sendq # <<>> => Len(events) = ChanCap
    /\ \A p \in 1..Len(prod) :
          prod[p].pc = "blocked" <=> \E i \in 1..Len(sendq) : sendq[i] = p

\* C6 as stated: a full channel blocks the Handle call without loss, and the blocked
\* event is delivered before every event whose Handle call started later than its own
\* (compared here only with events whose send also found the channel full).
C6_BlockedBeforeLaterStarted ==
    /\ BlocksWithoutLoss
    /\ \A i, j \in 1..Len(Order) :
          (i < j /\ Order[i].blockedAt # 0 /\ Order[j].blockedAt # 0) =>
              Order[i].seq < Order[j].seq

\* C6 amended: a full channel blocks the Handle call without loss, and the blocked
\* event is delivered before every event whose Handle call started after the blocked
\* call had parked in its send.
C6_Backpressure ==
    /\ BlocksWithoutLoss
    /\ \A i, j \in 1..Len(Order) :
          (i < j /\ Order[j].blockedAt # 0) => Order[i].seq <= Order[j].blockedAt

C6_Witness ==
    \E i, j \in 1..Len(delivered) :
        /\ i < j
        /\ delivered[i].blockedAt # 0
        /\ delivered[j].seq > delivered[i].blockedAt
        /\ delivered[j].blockedAt # 0

----------------------------------------------------------------------------
\* Properties of the request codec

\* the name holds the two-character separator "::" somewhere
HasNameSeparator(name) ==
    \E i \in 1..Len(name) : i < Len(name) /\ name[i] = ":" /\ name[i + 1] = ":"

\* what precedes the first "::" of a name that has one
KindPrefix(name) ==
    LET first == CHOOSE i \in 1..Len(name) :
                    /\ i < Len(name) /\ name[i] = ":" /\ name[i + 1] = ":"
                    /\ \A j \in 1..(i - 1) : ~(name[j] = ":" /\ name[j + 1] = ":") IN
    SubSeq(name, 1, first - 1)

\* the number of '/'-separated fields of a string
FieldCount(str) == Cardinality({i \in 1..Len(str) : str[i] = "/"}) + 1

\* C8: for every reference (gvk, namespace, name), parseRequest applied inside
\* Reconcile to the request requestFor produced returns no error and yields the same
\* kind, namespace and name, also for the empty group and for names that hold the
\* characters of the separators; the object Reconcile reads is that reference.
C8_CodecRoundTrip ==
    (ref # Nil /\ parsed # Nil) =>
        /\ parsed.err = NoErr
        /\ parsed.gvk = ref.gvk
        /\ parsed.key = ref.obj
        /\ gets = <<[gvk |-> ref.gvk, key |-> ref.obj]>>

C8_Witness ==
    /\ ref # Nil
    /\ parsed # Nil
    /\ ref.gvk.Group = <<>>
    /\ ref.obj.Name = <<"/", ":", ":">>
    /\ parsed.key.Name = <<"/", ":", ":">>
    /\ result = [err |-> NoErr]

\* C9: no other reference, differing in group, version, kind, namespace or name, is
\* encoded by requestFor to the request of this reference, and a name that holds
\* "::" is not split: the kind and the name read back are those of the reference.
C9_UnambiguousKey ==
    (ref # Nil /\ req # Nil) =>
        /\ \A other \in Refs : other # ref => requestFor(other.gvk, other.obj) # req
        /\ (parsed # Nil /\ HasNameSeparator(ref.obj.Name)) =>
              /\ parsed.gvk.Kind = ref.gvk.Kind
              /\ parsed.key.Name = ref.obj.Name

C9_Witness ==
    /\ ref # Nil
    /\ req # Nil
    /\ parsed # Nil
    /\ ref.gvk.Kind = <<"K">>
    /\ ref.obj.Name = <<"a", ":", ":">>
    /\ parsed.gvk.Kind = <<"K">>
    /\ \E other \in Refs : other.gvk.Version # ref.gvk.Version /\ other.obj = ref.obj

\* C10: for a request name that has no "::" or whose prefix before the first "::"
\* does not have exactly three '/'-separated fields, parseRequest returns an error,
\* Reconcile returns that error without a Get, and nothing is decoded.
C10_MalformedKeyRejected ==
    (result # Nil /\ (~HasNameSeparator(req.Name) \/ FieldCount(KindPrefix(req.Name)) # 3)) =>
        /\ parsed.err # NoErr
        /\ parsed.err.type \in {"invalid gvk encoding", "request name missing gvk prefix"}
        /\ result.err = parsed.err
        /\ gets = <<>>
        /\ parsed.gvk = EmptyGVK
        /\ parsed.key = EmptyKey

C10_Witness ==
    /\ result # Nil
    /\ ref = Nil
    /\ req.Name = <<"a", "/", "a", ":", ":">>
    /\ result.err = InvalidGVKErr(<<"a", "/", "a">>)
    /\ gets = <<>>

----------------------------------------------------------------------------
\* Properties of the sync handshake under repeated Start

\* C11: the synced channel of one initializer is closed at most once, also when
\* Start is invoked again on the instance: no execution reaches the second close.
C11_SyncedClosedAtMostOnce == syncedCh # ClosedTwice

\* C12: when the kind of some selector of the input cannot be resolved, Start
\* returns an error naming such a selector and the operator that owns it, no informer
\* and no handler has been registered for any selector, and the synced channel stays
\* open, so WaitForSync never reports success.
C12_ResolutionFailureAbortsAll ==
    ~Resolvable(inputResources) =>
        /\ informers = {}
        /\ handlers = <<>>
        /\ dispatcher = Nil
        /\ syncedCh = "open"
        /\ wfsResult # "nil"
        /\ startPc \in {"idle", "done"}
        /\ startPc = "done" =>
              /\ startErr.type = "unable to find Kind"
              /\ startErr.operator \in Owners
              /\ \E i \in 1..Len(inputResources[startErr.operator]) :
                    /\ inputResources[startErr.operator][i] = startErr.selector
                    /\ KindFor(startErr.selector.res) = NoKind

C12_Witness ==
    /\ startPc = "done"
    /\ startErr.type = "unable to find Kind"
    /\ startErr.operator = "opA"
    /\ Len(inputResources["opA"]) = 2
    /\ KindFor(inputResources["opA"][1].res) # NoKind
    /\ KindFor(inputResources["opA"][2].res) = NoKind
    /\ Len(inputResources["opB"]) = 1
    /\ KindFor(inputResources["opB"][1].res) # NoKind
    /\ cacheStarted
    /\ wfsResult = "ctxErr"

----------------------------------------------------------------------------
\* Further properties of the dispatcher

\* C13: an empty selector field matches any value: a change to an object of kind K
\* is sent when a selector of K has both fields empty, or has only the namespace set
\* and the object is in that namespace, or has only the name set and the object has
\* that name, whatever its namespace.
C13_EmptyFieldIsWildcard ==
    \A k \in Kinds : \A oi \in SelectorsOf(k) :
        LET s == inputResources[oi[1]][oi[2]]
            x == lastCall.payload.obj IN
        (LiveCall /\ lastCall.gvk = k) =>
            /\ (s.ns = "" /\ s.name = "") => SentObjects = {x}
            /\ (s.ns # "" /\ s.name = "" /\ x.ns = s.ns) => SentObjects = {x}
            /\ (s.ns = "" /\ s.name # "" /\ x.name = s.name) => SentObjects = {x}

C13_Witness ==
    /\ LiveCall
    /\ Cardinality(SelectorsOf(lastCall.gvk)) = 1
    /\ \E oi \in SelectorsOf(lastCall.gvk) :
          LET s == inputResources[oi[1]][oi[2]] IN
          /\ s.ns = ""
          /\ s.name = lastCall.payload.obj.name
    /\ lastCall.payload.obj.ns = "foo"
    /\ Len(delivered) = 1
    /\ delivered[1].obj = lastCall.payload.obj

\* the number of events sent or about to be sent
InFlight == Len(Order) + Cardinality({p \in 1..Len(prod) : prod[p].pc = "send"})

\* the positions of the filters of kind k that accept object x
AcceptingAt(k, x) ==
    {j \in 1..Len(dispatcher.filters[k]) : SelMatches(dispatcher.filters[k][j], x)}

\* C14: one invocation of Handle writes at most one event, also when several
\* filters of the kind accept the object: the filters are called in order up to the
\* first that accepts, which sends, and the filters after it are not called.
C14_AtMostOneEventPerHandle ==
    /\ Len(lastCall.sends) <= 1
    /\ accepted <= calls
    /\ InFlight = accepted
    /\ LiveCall =>
          LET x == lastCall.payload.obj
              at == AcceptingAt(lastCall.gvk, x) IN
          IF at = {}
          THEN /\ lastCall.sends = <<>>
               /\ lastCall.evaluated = Len(dispatcher.filters[lastCall.gvk])
          ELSE /\ lastCall.sends = <<[obj |-> x]>>
               /\ \A j \in at : lastCall.evaluated <= j
               /\ lastCall.evaluated \in at

C14_Witness ==
    /\ LiveCall
    /\ Cardinality(AcceptingAt(lastCall.gvk, lastCall.payload.obj)) >= 2
    /\ lastCall.evaluated < Len(dispatcher.filters[lastCall.gvk])
    /\ delivered = <<[obj |-> lastCall.payload.obj, seq |-> 1, blockedAt |-> 0]>>
    /\ events = <<>>
    /\ InFlight = 1

\* C15: Handle called with a kind the dispatcher holds no filter for calls no filter,
\* sends nothing and returns: its goroutine never waits in a send, also while the
\* channel is full, and no object of such a kind is ever in the channel.
C15_NoFilterNoEvent ==
    /\ (lastCall.cb # "none" /\ dispatcher.filters[lastCall.gvk] = <<>>) =>
          /\ lastCall.sends = <<>>
          /\ lastCall.evaluated = 0
          /\ prod[lastCall.p] = IdleProducer
    /\ \A p \in 1..Len(handlers) :
          dispatcher.filters[handlers[p].gvk] = <<>> =>
              /\ prod[p] = IdleProducer
              /\ \A i \in 1..Len(sendq) : sendq[i] # p
    /\ \A i \in 1..Len(Order) : dispatcher.filters[Order[i].obj.kind] # <<>>

C15_Witness ==
    /\ lastCall.cb = "update"
    /\ lastCall.payload.shape = "object"
    /\ dispatcher.filters[lastCall.gvk] = <<>>
    /\ Len(events) = ChanCap
    /\ sendq # <<>>
    /\ calls = MaxCalls
    /\ prod[lastCall.p] = IdleProducer

----------------------------------------------------------------------------
\* Properties of the selector-bound handlers

\* the payload is neither a live object nor a tombstone around an object
Malformed(payload) ==
    \/ payload.shape = "other"
    \/ payload.shape = "tombstone" /\ payload.obj = NotAnObject

\* C16: a callback payload that is neither a live object nor a tombstone around an
\* object is dropped with a reported error: nothing is sent for it, the error count
\* has grown, and the callback has returned (its goroutine is idle again).
C16_MalformedDroppedAndReported ==
    (lastCall.cb # "none" /\ Malformed(lastCall.payload)) =>
        /\ lastCall.sends = <<>>
        /\ prod[lastCall.p] = IdleProducer
        /\ handledErrors >= 1

\* C20: with two selectors of one operator on one kind (configmaps
\* kube-system/kube-root-ca.crt and kube-system/kubeadm-config), a change to the
\* object that only the second selector matches is sent to the event channel.
C20_SecondSelectorForwarded ==
    (/\ inputResources = DiscoveredInput
     /\ lastCall.cb # "none"
     /\ lastCall.payload = Live(Obj("ConfigMap", "kube-system", "kubeadm-config"))) =>
        lastCall.sends = <<[obj |-> Obj("ConfigMap", "kube-system", "kubeadm-config")]>>

----------------------------------------------------------------------------
\* Properties of cancellation

\* some handler goroutine waits in the send of Handle
SomeSenderBlocked == \E p \in 1..Len(prod) : prod[p].pc = "blocked"

\* C17: after the context is cancelled, a caller waiting in WaitForSync on the open
\* synced channel eventually returns the cancellation error, and a goroutine waiting
\* in the send of Handle on the full channel eventually leaves the send.
C17_CancellationReleases ==
    /\ (cancelled /\ wfsPc = "waiting" /\ syncedCh = "open")
          ~> (wfsPc = "idle" /\ wfsResult = "ctxErr")
    /\ (cancelled /\ SomeSenderBlocked) ~> ~SomeSenderBlocked

\* the part of C17 that concerns WaitForSync alone
WaitForSyncReleased ==
    (cancelled /\ wfsPc = "waiting" /\ syncedCh = "open")
        ~> (wfsPc = "idle" /\ wfsResult = "ctxErr")

RootCA == Obj("ConfigMap", "kube-system", "kube-root-ca.crt")
OtherConfigMap == Obj("ConfigMap", "kube-system", "other")

\* C19: with the selector list of main.go (configmaps kube-system/kube-root-ca.crt,
\* secrets kube-system/bootstrap-token-abcdef, nodes kind-control-plane in any
\* namespace) a startup that succeeds has registered exactly 3 watch streams, no
\* change to configmap kube-system/other is ever sent to the event channel, and
\* every change to configmap kube-system/kube-root-ca.crt is sent to it.
C19_MainScenario ==
    /\ (startPc = "done" /\ startErr = NoErr) =>
          /\ Len(handlers) = 3
          /\ Cardinality({handlers[i].gvk : i \in 1..Len(handlers)}) = 3
          /\ Cardinality(informers) = 3
    /\ OtherConfigMap \notin SentObjects
    /\ (lastCall.cb # "none" /\ lastCall.payload.obj = RootCA) =>
          /\ lastCall.sends = <<[obj |-> RootCA]>>
          /\ RootCA \in SentObjects

\* startup succeeded, a change to the other configmap was the last notification and
\* a change to kube-root-ca.crt has been received from the channel
C19_Witness ==
    /\ startPc = "done"
    /\ startErr = NoErr
    /\ lastCall.cb # "none"
    /\ lastCall.payload.obj = OtherConfigMap
    /\ \E i \in 1..Len(delivered) : delivered[i].obj = RootCA

\* Start has returned
StartReturned == startPc = "done"

\* C21: the synced channel is closed if and only if Start returns nil. While Start
\* runs the channel is open; on every error path (kind resolution, watch-stream
\* creation, handler registration, cache sync returning false, context
\* cancellation) Start returns a non-nil error and leaves the channel open; and a
\* Start that returned an error is not run again: its error and the channel stay
\* as they are.
C21_ClosedIffStartReturnsNil ==
    /\ [](/\ syncedCh \in {"open", "closed"}
          /\ syncedCh = "closed" => (StartReturned /\ startErr = NoErr)
          /\ StartReturned => (syncedCh = "closed" <=> startErr = NoErr)
          /\ (StartReturned /\ cacheSyncReturned = "false") =>
                startErr \in {CtxErr, NotSyncedErr})
    /\ [][(StartReturned /\ startErr # NoErr) =>
            (startPc' = startPc /\ startErr' = startErr /\ syncedCh' = syncedCh
             /\ handlers' = handlers)]_vars

\* Start failed at the registration of a handler after another handler had been
\* registered, and a caller is waiting for the synced signal
C21_Witness ==
    /\ StartReturned
    /\ startErr = HandlerErr
    /\ Len(handlers) >= 1
    /\ syncedCh = "open"
    /\ wfsPc = "waiting"

IsPrefix(a, b) == Len(a) <= Len(b) /\ SubSeq(b, 1, Len(a)) = a

\* the events whose send on the channel has completed, in the order of completion
CompletedSends == delivered \o events

C23_SignalEventuallyFires ==
    /\ [](~cancelled /\ startErr = NoErr) =>
          /\ <>(syncedCh = "closed")
          /\ (wfsPc = "waiting") ~> (wfsPc = "idle" /\ wfsResult = "nil")
    /\ [][startPc' # startPc => (events' = events /\ sendq' = sendq)]_vars

\* the signal has fired and a waiter has returned nil while the channel is full
\* and a sender is parked
C23_Witness ==
    /\ syncedCh = "closed"
    /\ wfsResult = "nil"
    /\ ~cancelled
    /\ Len(events) = ChanCap
    /\ SomeSenderBlocked
    /\ delivered = <<>>

\* the selector of the loop iteration that registered handler p: the first selector
\* of the handler's operator that resolves to the handler's kind
RECURSIVE firstSelectorOf(_, _, _)
firstSelectorOf(list, k, i) ==
    IF i > Len(list) THEN NoSelector
    ELSE IF KindFor(list[i].res) = k THEN list[i]
    ELSE firstSelectorOf(list, k, i + 1)

RegisteringSelector(p) ==
    firstSelectorOf(inputResources[handlers[p].operator], handlers[p].gvk, 1)

\* C24: the callbacks registered inside the selector loop filter with the selector
\* of their own iteration: an object handed to a callback of the stream of kind K is
\* sent exactly when the selector that caused K's registration matches its namespace
\* and name, whatever the selectors of later iterations are.
C24_CallbackUsesOwnSelector ==
    (lastCall.cb # "none" /\ ~Malformed(lastCall.payload)) =>
        LET x == lastCall.payload.obj IN
        IF SelMatches(RegisteringSelector(lastCall.p), x)
        THEN lastCall.sends = <<[obj |-> x]>>
        ELSE lastCall.sends = <<>>

\* a callback of a handler that was not registered in the last iteration forwarded an
\* object that the last selector of the list does not match
C24_Witness ==
    /\ inputResources = DiscoveredInput
    /\ lastCall.cb # "none"
    /\ lastCall.payload = Live(Obj("ConfigMap", "kube-system", "kube-root-ca.crt"))
    /\ lastCall.sends # <<>>
    /\ ~SelMatches(capturedDefShared(lastCall.p), lastCall.payload.obj)
    /\ delivered # <<>>

\* the kinds for which a handler is registered, and the kinds the dispatcher holds
\* a filter for
WatchedKinds == {handlers[i].gvk : i \in 1..Len(handlers)}
FilteredKinds == {k \in Kinds : dispatcher.filters[k] # <<>>}

\* C25: every kind for which a handler is registered has at least one filter in the
\* dispatcher, at every moment of Start and after it; once the registration loops
\* have run to their end the watched kinds are exactly the kinds with a non-empty
\* filter list.
C25_WatchedKindsHaveFilters ==
    /\ dispatcher = Nil => handlers = <<>>
    /\ dispatcher # Nil =>
          /\ WatchedKinds \subseteq FilteredKinds
          /\ RegistrationDone => WatchedKinds = FilteredKinds

\* Start has returned nil with handlers of both operators on two kinds
C25_Witness ==
    /\ startPc = "done"
    /\ startErr = NoErr
    /\ Cardinality(WatchedKinds) = 2
    /\ \E i, j \in 1..Len(handlers) : handlers[i].operator # handlers[j].operator

\* Start has installed the dispatcher and stored the selector set
Installed ==
    /\ dispatcher # Nil
    /\ \E order \in OwnerOrders :
          dispatcher = newEventDispatcher(buildInputResourceFilters(inputResources, order).filters)
    /\ rInputResources = inputResources

\* C26: the dispatcher and the stored selector set are assigned before the first
\* handler is registered and before the synced channel is closed: whenever a handler
\* is registered (so a callback can run) or a callback has run, the dispatcher is
\* set; and whenever the synced channel is closed or WaitForSync has returned nil,
\* the stored selector set is the complete set Start discovered.
C26_InstalledBeforeRegistration ==
    /\ (handlers # <<>> \/ lastCall.cb # "none") => Installed
    /\ (syncedCh = "closed" \/ wfsResult = "nil") => Installed
    /\ startPc \in {"rangeOperators", "rangeResources", "getInformerForKind",
                     "addEventHandler", "waitForCacheSync"} => Installed

\* a callback ran while Start was still registering handlers
C26_Witness ==
    /\ lastCall.cb # "none"
    /\ startPc = "getInformerForKind"
    /\ Len(handlers) = 1
    /\ syncedCh = "open"
    /\ delivered = <<>> /\ events # <<>>

\* C27: the synced state is absorbing: once the synced channel is closed it stays
\* closed, and every WaitForSync call made after that returns nil, also when the
\* context is already cancelled at the time of the call.
C27_SyncedIsAbsorbing ==
    /\ []((wfsCalledSynced /\ wfsPc = "idle") => wfsResult = "nil")
    /\ [][syncedCh = "closed" => syncedCh' = "closed"]_vars

\* C28: in the coarse routing every event taken from the event channel is mapped to
\* exactly one reconcile request, whose name is the fixed operator name
\* example-operator and whose namespace is empty, whatever the kind, namespace and
\* name of the object; so any two received events give the same work-queue key.
C28_OneFixedRequestPerEvent ==
    /\ Len(requests) = Len(delivered)
    /\ \A i \in 1..Len(requests) :
          /\ Len(requests[i]) = 1
          /\ requests[i][1] = [Namespace |-> "", Name |-> "example-operator"]
    /\ \A i, j \in 1..Len(requests) : requests[i] = requests[j]

\* events of objects of two kinds with different names were received
C28_Witness ==
    \E i, j \in 1..Len(delivered) :
        /\ delivered[i].obj.kind # delivered[j].obj.kind
        /\ delivered[i].obj.ns # delivered[j].obj.ns
        /\ delivered[i].obj.name # delivered[j].obj.name
        /\ Len(requests) >= 2

\* some filter of the kind of the callback accepts the object handed to it
SomeFilterAccepts(d, call) ==
    /\ callbackObject(call.cb, call.payload).ok
    /\ \E j \in 1..Len(d.filters[call.gvk]) :
          SelMatches(d.filters[call.gvk][j], callbackObject(call.cb, call.payload).obj)

\* C29: Handle changes nothing except the event channel. No step changes the
\* filter map or its lists; the event a Handle call sends carries the object it was
\* given, unchanged; and a call in which no filter accepts the object (or whose
\* kind has no filters) leaves the channel, the parked senders and the goroutine of
\* the caller as they were.
C29_HandleOnlyWritesChannel ==
    /\ [][dispatcher' = dispatcher]_vars
    /\ [](lastCall.sends # <<>> =>
            lastCall.sends = <<[obj |-> callbackObject(lastCall.cb, lastCall.payload).obj]>>)
    /\ [][(calls' # calls /\ ~SomeFilterAccepts(dispatcher, lastCall')) =>
            (events' = events /\ sendq' = sendq /\ prod' = prod /\ delivered' = delivered)]_vars

\* a callback whose object no filter of its kind accepts ran while the channel held
\* an event
C29_Witness ==
    /\ lastCall.cb # "none"
    /\ lastCall.sends = <<>>
    /\ lastCall.payload.shape = "object"
    /\ dispatcher.filters[lastCall.gvk] # <<>>
    /\ events # <<>>
    /\ delivered # <<>>

\* the selectors in the order the coarse Reconcile visits them
Visited == Flatten(rInputResources, env.order, 1)

\* Reconcile stops at selector i: it has a name and a step fails for it other than
\* the read reporting that the object does not exist
StopsAt(i) ==
    /\ Visited[i].def.name # ""
    /\ env.world[Visited[i].def] \notin {"notFound", "found"}

\* the selectors among the first n that Reconcile reads from the cache
ReadPositions(n) ==
    {i \in 1..n : /\ Visited[i].def.name # ""
                  /\ env.world[Visited[i].def] \in {"notFound", "found", "getErr", "convertErr"}}

\* C30: the coarse Reconcile skips a selector with an empty name and does not treat
\* a missing object as an error: if no other step fails for any selector it returns
\* nil having read every selector that has a name; otherwise it returns the error of
\* the first selector for which kind resolution, construction or a read other than
\* not-found fails, and has read no selector after that one.
C30_ReconcileSkipsAndStops ==
    (env # Nil /\ result # Nil) =>
        IF \E i \in 1..Len(Visited) : StopsAt(i)
        THEN LET f == CHOOSE i \in 1..Len(Visited) :
                         StopsAt(i) /\ \A j \in 1..(i - 1) : ~StopsAt(j) IN
             /\ result.err = ReconcileErr(env.world[Visited[f].def])
             /\ Len(gets) = Cardinality(ReadPositions(f))
        ELSE /\ result.err = NoErr
             /\ Len(gets) = Cardinality(ReadPositions(Len(Visited)))
             /\ \A i \in 1..Len(Visited) :
                   Visited[i].def.name # "" =>
                      \E g \in 1..Len(gets) :
                         gets[g].key = ObjectKey(Visited[i].def.ns, Visited[i].def.name)

\* Reconcile returned nil after it skipped a selector without a name, found one
\* object missing and read another one
C30_Witness ==
    /\ env # Nil
    /\ result # Nil
    /\ result.err = NoErr
    /\ Len(gets) = 2
    /\ Len(Visited) = 3
    /\ Visited[1].def.name = ""
    /\ env.world[Visited[2].def] = "notFound"
    /\ env.world[Visited[3].def] = "found"

====
